---- MODULE Spec2Model ----
(***************************************************************************)
(* A model of the adcli enrollment engine (library/adenroll.c): the        *)
(* enrollment context, its public setters, and adcli_enroll_join as the    *)
(* pipeline of stages it runs, against a directory, a kpasswd service, a   *)
(* realm answering trial AS-REQs and a keytab file.                        *)
(*                                                                         *)
(* C strings are sequences of one-character strings; the C NULL pointer is *)
(* the value NULL below.                                                   *)
(***************************************************************************)
EXTENDS Integers, Sequences, FiniteSets, TLC

VARIABLES
    enroll,          \* struct _adcli_enroll
    pc,              \* "idle", the stage adcli_enroll_join is at, "done", "aborted"
    flags,           \* the flags argument of the join
    result,          \* what the join returned
    keytab_file,     \* the entries of the keytab file, in file order
    directory,       \* the objects of the directory
    kt_index,        \* i of update_keytab_for_principals
    which_salt,      \* which_salt of update_keytab_for_principals
    log,             \* the external operations the join issued, in order
    stage_log,       \* the result of each stage the join ran, in order
    prepare_results, \* the running result after each helper of prepare
    trials,          \* the trial AS-REQs the join made, in order
    written,         \* the keytab entries the join added, in order
    kt_before,       \* the keytab file as it was when the join started
    setter_calls,    \* the number of setter calls made
    enroll_before,   \* the context as the caller handed it to the join
    ldap_log,        \* the LDAP requests on the account, each with its answer
    password_log,    \* the calls of the password setter, each with its outcome
    world,           \* the aspects of the outside world that vary in this run
    previous,        \* what the earlier joins on this context ended with
    released,        \* the password buffers the context freed, in order
    refs,            \* enroll->refs
    teardowns,       \* how many times enroll_free ran on the context
    conn_log,        \* the calls the context made on the connection
    gen_length,      \* length of generate_host_password
    gen_password,    \* password of generate_host_password, the buffer
    gen_at,          \* at of generate_host_password
    gen_octets,      \* what krb5_c_random_make_octets wrote last
    gen_kept,        \* what filter_password_chars returned last
    conn,            \* the connection of the tool, as its setters left it
    statics,         \* the static variables of parse_option
    tool             \* the command of the tool that is running

vars == << enroll, pc, flags, result, keytab_file, directory, kt_index,
           which_salt, log, stage_log, prepare_results, trials, written,
           kt_before, setter_calls, enroll_before, ldap_log, password_log,
           world, previous, released, refs, teardowns, conn_log, gen_length,
           gen_password, gen_at, gen_octets, gen_kept, conn, statics, tool >>

\* the reference count of the context and what hangs on it
lifecycle == << refs, teardowns, conn_log >>

\* the variables of generate_host_password
generator == << gen_length, gen_password, gen_at, gen_octets, gen_kept >>

\* the variables of the tool
tools == << conn, statics, tool >>

-----------------------------------------------------------------------------
(* Bounds of the model *)

\* the keytab file may start with entries at the versions 1..MaxOldVno
MaxOldVno == 3
\* the key version number of an account that exists before the join
ExistingKvno == 2
\* the caller makes at most MaxSetterCalls setter calls before the join
MaxSetterCalls == 1
\* the caller runs at most MaxJoins joins on the one context
MaxJoins == 2
\* generate_host_password is asked for at most MaxLength characters
MaxLength == 4
\* the context is held by at most MaxRefs references at a time
MaxRefs == 3
\* a command line of the tool carries at most MaxOptions options
MaxOptions == 3
\* a member command names at most MaxMembers members
MaxMembers == 2

-----------------------------------------------------------------------------
(* adcli_result, and the two ways the process can end without returning *)

ADCLI_SUCCESS == "ADCLI_SUCCESS"
ADCLI_ERR_UNEXPECTED == "ADCLI_ERR_UNEXPECTED"
ADCLI_ERR_FAIL == "ADCLI_ERR_FAIL"
ADCLI_ERR_DIRECTORY == "ADCLI_ERR_DIRECTORY"
ADCLI_ERR_CONFIG == "ADCLI_ERR_CONFIG"
ADCLI_ERR_CREDENTIALS == "ADCLI_ERR_CREDENTIALS"

\* a failed assert() (SIGABRT) or a crash: the call never returns
ABORTED == "ABORTED"

ADCLI_ENROLL_NO_KEYTAB == "ADCLI_ENROLL_NO_KEYTAB"
ADCLI_ENROLL_ALLOW_OVERWRITE == "ADCLI_ENROLL_ALLOW_OVERWRITE"

-----------------------------------------------------------------------------
(* Strings *)

NULL == << "NULL" >>

LowerCase == << "a","b","c","d","e","f","g","h","i","j","k","l","m",
                "n","o","p","q","r","s","t","u","v","w","x","y","z" >>
UpperCase == << "A","B","C","D","E","F","G","H","I","J","K","L","M",
                "N","O","P","Q","R","S","T","U","V","W","X","Y","Z" >>

toupper(c) ==
    IF \E i \in DOMAIN LowerCase : LowerCase[i] = c
    THEN UpperCase[CHOOSE i \in DOMAIN LowerCase : LowerCase[i] = c]
    ELSE c

tolower(c) ==
    IF \E i \in DOMAIN UpperCase : UpperCase[i] = c
    THEN LowerCase[CHOOSE i \in DOMAIN UpperCase : UpperCase[i] = c]
    ELSE c

adcli_str_up(s) == [i \in DOMAIN s |-> toupper(s[i])]

adcli_str_down(s) == [i \in DOMAIN s |-> tolower(s[i])]

\* the printable ASCII characters, from 32 to 126 (the grave accent, 96, by
\* its number)
AsciiPrintable ==
    << " ", "!", "\"", "#", "$", "%", "&", "'", "(", ")", "*", "+",
       ",", "-", ".", "/", "0", "1", "2", "3", "4", "5", "6", "7",
       "8", "9", ":", ";", "<", "=", ">", "?", "@", "A", "B", "C",
       "D", "E", "F", "G", "H", "I", "J", "K", "L", "M", "N", "O",
       "P", "Q", "R", "S", "T", "U", "V", "W", "X", "Y", "Z", "[",
       "\\", "]", "^", "_", "(96)", "a", "b", "c", "d", "e", "f", "g",
       "h", "i", "j", "k", "l", "m", "n", "o", "p", "q", "r", "s",
       "t", "u", "v", "w", "x", "y", "z", "{", "|", "}", "~" >>

\* the printable ASCII character of a code
Chr(code) == AsciiPrintable[code - 31]

\* the code of a printable ASCII character
Ascii(c) == 31 + CHOOSE i \in DOMAIN AsciiPrintable : AsciiPrintable[i] = c

\* index of the first c in s, 0 when there is none
strchr(s, c) ==
    IF \E i \in DOMAIN s : s[i] = c
    THEN CHOOSE i \in DOMAIN s : s[i] = c /\ \A j \in 1..(i - 1) : s[j] # c
    ELSE 0

\* what printf's %s makes of a string argument; for a NULL argument the
\* behaviour is undefined: ub is what this build does with it
UB_PRINTS_NULL == "(null)"
UB_CRASHES == "crash"
UndefinedOutcomes == { UB_PRINTS_NULL, UB_CRASHES }

NullText == << "(", "n", "u", "l", "l", ")" >>

FormatS(s) == IF s = NULL THEN NullText ELSE s

-----------------------------------------------------------------------------
(* The connection collaborator, as far as the engine reads it *)

ConnHostFqdn == << "h", "2", ".", "c" >>
DomainRealm == << "C" >>
NamingContext == << "D", "C", "=", "c" >>

adcli_conn_get_host_fqdn == ConnHostFqdn
adcli_conn_get_domain_realm == DomainRealm
adcli_conn_get_naming_context == NamingContext

-----------------------------------------------------------------------------
(* Kerberos principals and enctypes *)

NULLV == << NULL >>                       \* the NULL char **
NoPrincipal == [name |-> NULL, realm |-> NULL]   \* the NULL krb5_principal
NoEnctypes == << -1 >>                    \* the NULL krb5_enctype *

ENCTYPE_DES_CBC_CRC == 1
ENCTYPE_DES_CBC_MD5 == 3
ENCTYPE_DES3_CBC_SHA1 == 16
ENCTYPE_AES128_CTS_HMAC_SHA1_96 == 17
ENCTYPE_AES256_CTS_HMAC_SHA1_96 == 18
ENCTYPE_ARCFOUR_HMAC == 23

\* krb5_parse_name: the unparsed name with the default realm; a name ending
\* in an escape character is malformed
krb5_parse_name(name) ==
    IF name # << >> /\ name[Len(name)] = "\\"
    THEN NoPrincipal
    ELSE [name |-> name, realm |-> << >>]

krb5_set_principal_realm(principal, realm) == [principal EXCEPT !.realm = realm]

krb5_principal_compare(p, q) == p.name = q.name /\ p.realm = q.realm

-----------------------------------------------------------------------------
(* struct _adcli_enroll after adcli_enroll_new *)

adcli_enroll_new ==
    [ host_fqdn |-> NULL,
      host_fqdn_explicit |-> FALSE,
      computer_name |-> NULL,
      computer_name_explicit |-> FALSE,
      computer_sam |-> NULL,
      computer_password |-> NULL,
      computer_password_explicit |-> FALSE,
      reset_password |-> FALSE,
      computer_principal |-> NoPrincipal,
      preferred_ou |-> NULL,
      preferred_ou_validated |-> FALSE,
      computer_container |-> NULL,
      computer_dn |-> NULL,
      computer_attributes |-> {},
      service_names |-> NULLV,
      service_principals |-> NULLV,
      service_principals_explicit |-> FALSE,
      kvno |-> 0,
      keytab_name |-> NULL,
      keytab |-> FALSE,
      keytab_principals |-> << >>,
      keytab_enctypes |-> NoEnctypes,
      keytab_enctypes_explicit |-> FALSE ]

\* the value a stage helper hands back: its result and the context it leaves
Ret(res, e) == [res |-> res, enroll |-> e]

-----------------------------------------------------------------------------
(* The stage helpers of adcli_enroll_prepare *)

ensure_host_fqdn(res, e) ==
    IF res # ADCLI_SUCCESS THEN Ret(res, e)
    ELSE IF e.host_fqdn # NULL THEN Ret(ADCLI_SUCCESS, e)
    ELSE IF e.host_fqdn_explicit THEN Ret(ADCLI_SUCCESS, e)
    ELSE Ret(ADCLI_SUCCESS, [e EXCEPT !.host_fqdn = adcli_conn_get_host_fqdn])

ensure_computer_name_keeps_case(res, e) ==
    IF res # ADCLI_SUCCESS THEN Ret(res, e)
    ELSE IF e.computer_name # NULL THEN Ret(ADCLI_SUCCESS, e)
    ELSE IF e.host_fqdn = NULL THEN Ret(ADCLI_ERR_CONFIG, e)
    ELSE LET dom == strchr(e.host_fqdn, ".") IN
         IF dom = 0 \/ dom = 1 \/ dom = Len(e.host_fqdn)
         THEN Ret(ADCLI_ERR_CONFIG, e)
         ELSE Ret(ADCLI_SUCCESS,
                  [e EXCEPT !.computer_name = SubSeq(e.host_fqdn, 1, dom - 1)])

ensure_computer_name(res, e) ==
    IF res # ADCLI_SUCCESS THEN Ret(res, e)
    ELSE IF e.computer_name # NULL THEN Ret(ADCLI_SUCCESS, e)
    ELSE IF e.host_fqdn = NULL THEN Ret(ADCLI_ERR_CONFIG, e)
    ELSE LET dom == strchr(e.host_fqdn, ".") IN
         \* no dot, or dot is first or last
         IF dom = 0 \/ dom = 1 \/ dom = Len(e.host_fqdn)
         THEN Ret(ADCLI_ERR_CONFIG, e)
         ELSE Ret(ADCLI_SUCCESS,
                  [e EXCEPT !.computer_name =
                       adcli_str_up(SubSeq(e.host_fqdn, 1, dom - 1))])

\* the running result is not looked at: the work is done whatever res is
ensure_computer_sam(res, e, ub) ==
    IF e.computer_name = NULL /\ ub = UB_CRASHES THEN Ret(ABORTED, e)
    ELSE LET sam == FormatS(e.computer_name) \o << "$" >>
             parsed == krb5_parse_name(sam)
         IN  IF parsed = NoPrincipal
             THEN Ret(ADCLI_ERR_UNEXPECTED,
                      [e EXCEPT !.computer_sam = sam,
                                !.computer_principal = NoPrincipal])
             ELSE Ret(ADCLI_SUCCESS,
                      [e EXCEPT !.computer_sam = sam,
                                !.computer_principal =
                                    krb5_set_principal_realm(parsed,
                                        adcli_conn_get_domain_realm)])

\* filter_password_chars with the upper limit off by one
filter_password_chars_below_122(password, length) ==
    LET keep(c) == c >= 32 /\ c < 122
        kept == SelectSeq(SubSeq(password, 1, length), keep)
    IN  [password |-> kept \o SubSeq(password, Len(kept) + 1, Len(password)),
         ret |-> Len(kept)]

\* the loop of filter_password_chars from (i, j) on; password[i] of the
\* source is password[i + 1] here.  A char is signed or unsigned as the
\* platform has it: an octet above 127 is negative or above 122, and is
\* dropped either way.
RECURSIVE filter_password_chars_from(_, _, _, _)
filter_password_chars_from(password, length, i, j) ==
    IF ~(i < length) THEN [password |-> password, ret |-> j]
    ELSE IF password[i + 1] >= 32 /\ password[i + 1] <= 122
         THEN filter_password_chars_from(
                  [password EXCEPT ![j + 1] = password[i + 1]],
                  length, i + 1, j + 1)
         ELSE filter_password_chars_from(password, length, i + 1, j)

\* filter_password_chars: the buffer as it leaves it, and what it returns
filter_password_chars(password, length) ==
    filter_password_chars_from(password, length, 0, 0)

\* _adcli_calc_reset_password: the default password of a reset account,
\* the lower-cased computer name
adcli_calc_reset_password(name) == adcli_str_down(name)

\* ensure_computer_password that computes a password whether or not the
\* context holds one
ensure_computer_password_always_computes(res, e, generated) ==
    IF res # ADCLI_SUCCESS THEN Ret(res, e)
    ELSE IF e.reset_password
         THEN IF e.computer_name = NULL THEN Ret(ABORTED, e)
              ELSE Ret(ADCLI_SUCCESS,
                       [e EXCEPT !.computer_password =
                            adcli_calc_reset_password(e.computer_name)])
         ELSE Ret(ADCLI_SUCCESS, [e EXCEPT !.computer_password = generated])

ensure_computer_password(res, e, generated) ==
    IF res # ADCLI_SUCCESS THEN Ret(res, e)
    ELSE IF e.computer_password # NULL THEN Ret(ADCLI_SUCCESS, e)
    ELSE IF e.reset_password
         THEN IF e.computer_name = NULL THEN Ret(ABORTED, e)   \* assert
              ELSE Ret(ADCLI_SUCCESS,
                       [e EXCEPT !.computer_password =
                            adcli_calc_reset_password(e.computer_name)])
         ELSE Ret(ADCLI_SUCCESS, [e EXCEPT !.computer_password = generated])

DefaultKeytabName == << "F", "I", "L", "E", ":", "k" >>

\* opened: whether krb5_kt_resolve / krb5_kt_default succeeds
ensure_host_keytab(res, e, opened) ==
    IF res # ADCLI_SUCCESS THEN Ret(res, e)
    ELSE IF e.keytab THEN Ret(ADCLI_SUCCESS, e)
    ELSE IF ~opened THEN Ret(ADCLI_ERR_FAIL, e)
    ELSE IF e.keytab_name # NULL
         THEN Ret(ADCLI_SUCCESS, [e EXCEPT !.keytab = TRUE])
         ELSE Ret(ADCLI_SUCCESS,
                  [e EXCEPT !.keytab = TRUE, !.keytab_name = DefaultKeytabName])

DefaultServiceNames ==
    << << "H", "O", "S", "T" >>,
       << "R", "e", "s", "t", "r", "i", "c", "t", "e", "d",
          "K", "r", "b", "H", "o", "s", "t" >> >>

ensure_service_names(res, e) ==
    IF res # ADCLI_SUCCESS THEN Ret(res, e)
    ELSE IF e.service_names # NULLV THEN Ret(ADCLI_SUCCESS, e)
    ELSE Ret(ADCLI_SUCCESS, [e EXCEPT !.service_names = DefaultServiceNames])

\* the default service principals: for each service name, name/computer_name
\* and, when there is a host_fqdn, name/host_fqdn
RECURSIVE DefaultServicePrincipals(_, _, _)
DefaultServicePrincipals(names, computer_name, host_fqdn) ==
    IF names = << >> THEN << >>
    ELSE (<< Head(names) \o << "/" >> \o FormatS(computer_name) >>
          \o (IF host_fqdn # NULL
              THEN << Head(names) \o << "/" >> \o host_fqdn >>
              ELSE << >>))
         \o DefaultServicePrincipals(Tail(names), computer_name, host_fqdn)

\* the keytab principals: the computer principal, then one per service
\* principal; stops at the first one that does not parse
RECURSIVE ParsePrincipals(_)
ParsePrincipals(names) ==
    IF names = << >> THEN << >>
    ELSE IF krb5_parse_name(Head(names)) = NoPrincipal THEN << >>
    ELSE << krb5_set_principal_realm(krb5_parse_name(Head(names)),
                                     adcli_conn_get_domain_realm) >>
         \o ParsePrincipals(Tail(names))

\* ensure_service_principals with the two names of a service the other way
\* round: name/host_fqdn before name/computer_name
ensure_service_principals_fqdn_first(res, e, ub, asserts) ==
    IF asserts /\ e.service_names = NULLV THEN Ret(ABORTED, e)
    ELSE IF asserts /\ e.keytab_principals # << >> THEN Ret(ABORTED, e)
    ELSE IF res # ADCLI_SUCCESS THEN Ret(res, e)
    ELSE IF e.service_principals = NULLV /\ e.service_names = NULLV
    THEN Ret(ABORTED, e)
    ELSE IF e.service_principals = NULLV /\ e.service_names # << >>
            /\ e.computer_name = NULL /\ ub = UB_CRASHES
    THEN Ret(ABORTED, e)
    ELSE IF e.service_principals = NULLV /\ e.service_names = << >>
    THEN Ret(ADCLI_ERR_UNEXPECTED, e)
    ELSE LET sp == IF e.service_principals = NULLV
                   THEN DefaultServicePrincipals(e.service_names,
                            e.host_fqdn, e.computer_name)
                   ELSE e.service_principals
             e1 == [e EXCEPT !.service_principals = sp]
             parsed == ParsePrincipals(sp)
         IN  IF Len(parsed) < Len(sp)
             THEN Ret(ADCLI_ERR_CONFIG,
                      [e1 EXCEPT !.keytab_principals =
                           << e.computer_principal >> \o parsed])
             ELSE Ret(ADCLI_SUCCESS,
                      [e1 EXCEPT !.keytab_principals =
                           << e.computer_principal >> \o parsed])

\* asserts: whether the build keeps assert() (it does unless NDEBUG is set)
ensure_service_principals(res, e, ub, asserts) ==
    IF asserts /\ e.service_names = NULLV THEN Ret(ABORTED, e)
    ELSE IF asserts /\ e.keytab_principals # << >> THEN Ret(ABORTED, e)
    ELSE IF res # ADCLI_SUCCESS THEN Ret(res, e)
    ELSE IF e.service_principals = NULLV /\ e.service_names = NULLV
    THEN Ret(ABORTED, e)                  \* service_names[0] of a NULL array
    ELSE IF e.service_principals = NULLV /\ e.service_names # << >>
            /\ e.computer_name = NULL /\ ub = UB_CRASHES
    THEN Ret(ABORTED, e)
    ELSE IF e.service_principals = NULLV /\ e.service_names = << >>
    THEN Ret(ADCLI_ERR_UNEXPECTED, e)
    ELSE LET sp == IF e.service_principals = NULLV
                   THEN DefaultServicePrincipals(e.service_names,
                            e.computer_name, e.host_fqdn)
                   ELSE e.service_principals
             e1 == [e EXCEPT !.service_principals = sp]
             parsed == ParsePrincipals(sp)
         IN  IF Len(parsed) < Len(sp)
             THEN Ret(ADCLI_ERR_CONFIG,
                      [e1 EXCEPT !.keytab_principals =
                           << e.computer_principal >> \o parsed])
             ELSE Ret(ADCLI_SUCCESS,
                      [e1 EXCEPT !.keytab_principals =
                           << e.computer_principal >> \o parsed])

\* the running result after each helper of adcli_enroll_prepare, in order
PrepareSteps(e, fl, ub, generated, opened, asserts) ==
    LET r1 == ensure_host_fqdn(ADCLI_SUCCESS, e)
        r2 == ensure_computer_name(r1.res, r1.enroll)
        r3 == ensure_computer_sam(r2.res, r2.enroll, ub)
        r4 == ensure_computer_password(r3.res, r3.enroll, generated)
        r5 == IF ADCLI_ENROLL_NO_KEYTAB \notin fl
              THEN ensure_host_keytab(r4.res, r4.enroll, opened)
              ELSE r4
        r6 == ensure_service_names(r5.res, r5.enroll)
        r7 == ensure_service_principals(r6.res, r6.enroll, ub, asserts)
    IN  << r1, r2, r3, r4, r5, r6, r7 >>

adcli_enroll_prepare(e, fl, ub, generated, opened, asserts) ==
    PrepareSteps(e, fl, ub, generated, opened, asserts)[7]

-----------------------------------------------------------------------------
(* LDAP result codes, and _adcli_ldap_handle_failure *)

LDAP_SUCCESS == "LDAP_SUCCESS"
LDAP_NO_SUCH_OBJECT == "LDAP_NO_SUCH_OBJECT"
LDAP_INSUFFICIENT_ACCESS == "LDAP_INSUFFICIENT_ACCESS"
LDAP_OBJECT_CLASS_VIOLATION == "LDAP_OBJECT_CLASS_VIOLATION"
LDAP_COMPARE_TRUE == "LDAP_COMPARE_TRUE"
LDAP_COMPARE_FALSE == "LDAP_COMPARE_FALSE"
LDAP_SERVER_DOWN == "LDAP_SERVER_DOWN"

\* logs the failure on the connection and hands back the default result
adcli_ldap_handle_failure(defres) == defres

strcasecmp_eq(a, b) == adcli_str_up(a) = adcli_str_up(b)

-----------------------------------------------------------------------------
(* Locating the organizational unit and the computer container *)

\* ret: the outcome of the objectClass compare, when one is issued
validate_preferred_ou(e, ret) ==
    IF e.preferred_ou_validated THEN Ret(ADCLI_SUCCESS, e)
    ELSE IF strcasecmp_eq(e.preferred_ou, adcli_conn_get_naming_context)
    THEN Ret(ADCLI_SUCCESS, [e EXCEPT !.preferred_ou_validated = TRUE])
    ELSE IF ret = LDAP_COMPARE_TRUE
    THEN Ret(ADCLI_SUCCESS, [e EXCEPT !.preferred_ou_validated = TRUE])
    ELSE IF ret = LDAP_COMPARE_FALSE THEN Ret(ADCLI_ERR_CONFIG, e)
    ELSE Ret(adcli_ldap_handle_failure(ADCLI_ERR_DIRECTORY), e)

validate_preferred_ou_queries(e) ==
    ~e.preferred_ou_validated
    /\ ~strcasecmp_eq(e.preferred_ou, adcli_conn_get_naming_context)

\* ret: the outcome of the search; value: the preferredOU it returned
lookup_preferred_ou(e, ret, value) ==
    IF ret # LDAP_SUCCESS
    THEN Ret(adcli_ldap_handle_failure(ADCLI_ERR_DIRECTORY), e)
    ELSE IF value = NULL
    THEN Ret(ADCLI_SUCCESS,
             [e EXCEPT !.preferred_ou = adcli_conn_get_naming_context])
    ELSE Ret(ADCLI_SUCCESS, [e EXCEPT !.preferred_ou = value])

WellKnownPrefix ==   \* "B:32:AA312825768811D1ADED00C04FD8D5CD:"
    << "B", ":", "3", "2", ":", "A", "A", "3", "1", "2", "8", "2", "5", "7", "6", "8", "8", "1", "1", "D", "1", "A", "D", "E", "D", "0", "0", "C", "0", "4", "F", "D", "8", "D", "5", "C", "D", ":" >>

HasPrefix(s, prefix) ==
    Len(s) >= Len(prefix) /\ SubSeq(s, 1, Len(prefix)) = prefix

\* the first of the values that starts with the well-known prefix, less the
\* prefix; NULL when there is none
RECURSIVE FirstWellKnown(_)
FirstWellKnown(values) ==
    IF values = << >> THEN NULL
    ELSE IF HasPrefix(Head(values), WellKnownPrefix)
    THEN SubSeq(Head(values), Len(WellKnownPrefix) + 1, Len(Head(values)))
    ELSE FirstWellKnown(Tail(values))

lookup_computer_container_strict(e, ret1, values, ret2, dn) ==
    IF e.computer_container # NULL THEN Ret(ADCLI_SUCCESS, e)
    ELSE IF ret1 # LDAP_SUCCESS
    THEN Ret(adcli_ldap_handle_failure(ADCLI_ERR_DIRECTORY), e)
    ELSE IF FirstWellKnown(values) # NULL
    THEN Ret(ADCLI_SUCCESS,
             [e EXCEPT !.computer_container = FirstWellKnown(values)])
    ELSE IF ret2 # LDAP_SUCCESS
    THEN Ret(adcli_ldap_handle_failure(ADCLI_ERR_DIRECTORY), e)
    ELSE Ret(ADCLI_SUCCESS,
             [e EXCEPT !.computer_container =
                           IF dn # NULL THEN dn ELSE e.preferred_ou])

\* ret1, values: the wellKnownObjects read; ret2, dn: the CN=Computers search
lookup_computer_container(e, ret1, values, ret2, dn) ==
    IF e.computer_container # NULL THEN Ret(ADCLI_SUCCESS, e)
    ELSE IF ret1 # LDAP_SUCCESS
    THEN Ret(adcli_ldap_handle_failure(ADCLI_ERR_DIRECTORY), e)
    ELSE LET c1 == FirstWellKnown(values)
             c2 == IF c1 # NULL THEN c1
                   ELSE IF ret2 = LDAP_SUCCESS THEN dn ELSE NULL
             c3 == IF c2 # NULL THEN c2 ELSE e.preferred_ou
         IN  Ret(ADCLI_SUCCESS, [e EXCEPT !.computer_container = c3])

\* the number of searches lookup_computer_container issues
lookup_computer_container_searches(e, ret1, values) ==
    IF e.computer_container # NULL THEN 0
    ELSE IF ret1 # LDAP_SUCCESS THEN 1
    ELSE IF FirstWellKnown(values) # NULL THEN 1 ELSE 2

calc_computer_account(e, ub) ==
    IF e.computer_name = NULL /\ ub = UB_CRASHES THEN Ret(ABORTED, e)
    ELSE Ret(ADCLI_SUCCESS,
             [e EXCEPT !.computer_dn =
                  << "C", "N", "=" >> \o FormatS(e.computer_name)
                  \o << "," >> \o e.computer_container])

-----------------------------------------------------------------------------
(* The directory: a set of objects, each a DN and its attributes *)

Attributes ==
    { "objectClass", "sAMAccountName", "userAccountControl",
      "msDS-KeyVersionNumber", "msDS-supportedEncryptionTypes",
      "dNSHostName", "servicePrincipalName" }

NoValues == [a \in Attributes |-> {}]

\* the object at dn (DNs compare without regard to case); none: the empty set
Lookup(dir, dn) == { o \in dir : strcasecmp_eq(o.dn, dn) }

LDAP_MOD_ADD == 0
LDAP_MOD_REPLACE == 2

\* an LDAPMod
Mod(op, type, vals) == [mod_op |-> op, mod_type |-> type, vals |-> vals]

\* _adcli_ldap_prune_empty_mods
adcli_ldap_prune_empty_mods(mods) == SelectSeq(mods, LAMBDA m : m.vals # {})

\* _adcli_ldap_have_mod: every value of the mod is among the values had
adcli_ldap_have_mod(mod, have) == mod.vals \subseteq have

filter_for_necessary_updates_keeps_all(entry, mods) == mods

\* entry: the set holding the entry of the result message, empty if none;
\* hands back the mods that are still needed, in their order
filter_for_necessary_updates(entry, mods) ==
    SelectSeq(mods, LAMBDA m :
        ~(\E o \in entry :
              /\ o.attrs[m.mod_type] # {}
              /\ adcli_ldap_have_mod(m, o.attrs[m.mod_type])))

\* the directory after a successful add of dn with mods
DirAdd(dir, dn, mods) ==
    dir \cup { [dn |-> dn, kvno |-> 1,
                attrs |-> [a \in Attributes |->
                    IF \E i \in DOMAIN mods : mods[i].mod_type = a
                    THEN (CHOOSE m \in { mods[i] : i \in DOMAIN mods } :
                              m.mod_type = a).vals
                    ELSE {}]] }

\* the directory after a successful modify (replace) of dn with mods
DirModify(dir, dn, mods) ==
    { IF strcasecmp_eq(o.dn, dn)
      THEN [o EXCEPT !.attrs = [a \in Attributes |->
                IF \E i \in DOMAIN mods : mods[i].mod_type = a
                THEN (CHOOSE m \in { mods[i] : i \in DOMAIN mods } :
                          m.mod_type = a).vals
                ELSE o.attrs[a]]]
      ELSE o : o \in dir }

-----------------------------------------------------------------------------
(* The account reconciler *)

UserAccountControl == << "6", "9", "6", "3", "2" >>
ObjectClassComputer == << "c", "o", "m", "p", "u", "t", "e", "r" >>

AccountMods(e) ==
    << Mod(LDAP_MOD_ADD, "objectClass", { ObjectClassComputer }),
       Mod(LDAP_MOD_ADD, "sAMAccountName", { e.computer_sam }),
       Mod(LDAP_MOD_ADD, "userAccountControl", { UserAccountControl }) >>

\* mods[i]->mod_op |= LDAP_MOD_REPLACE, for every mod: the operation of a
\* mod is LDAP_MOD_ADD or LDAP_MOD_REPLACE, and becomes LDAP_MOD_REPLACE
ReplaceAll(mods) ==
    [i \in DOMAIN mods |-> [mods[i] EXCEPT !.mod_op = LDAP_MOD_REPLACE]]

\* ret: the outcome of ldap_add_ext_s
create_computer_account(ret) ==
    IF ret = LDAP_INSUFFICIENT_ACCESS \/ ret = LDAP_OBJECT_CLASS_VIOLATION
    THEN adcli_ldap_handle_failure(ADCLI_ERR_CREDENTIALS)
    ELSE IF ret # LDAP_SUCCESS
    THEN adcli_ldap_handle_failure(ADCLI_ERR_DIRECTORY)
    ELSE ADCLI_SUCCESS

modify_computer_account_as_add(ret) == create_computer_account(ret)

\* ret: the outcome of ldap_modify_ext_s
modify_computer_account(ret) ==
    IF ret = LDAP_INSUFFICIENT_ACCESS
    THEN adcli_ldap_handle_failure(ADCLI_ERR_CREDENTIALS)
    ELSE IF ret # LDAP_SUCCESS
    THEN adcli_ldap_handle_failure(ADCLI_ERR_DIRECTORY)
    ELSE ADCLI_SUCCESS

create_or_update_computer_account_overwrites(e, allow_overwrite, sret, entry, wret) ==
    IF sret = LDAP_NO_SUCH_OBJECT
    THEN [res |-> create_computer_account(wret), op |-> "ldap_add",
          mods |-> adcli_ldap_prune_empty_mods(AccountMods(e))]
    ELSE IF sret = LDAP_SUCCESS
    THEN LET mods == filter_for_necessary_updates(entry, AccountMods(e))
         IN  IF mods # << >>
             THEN [res |-> modify_computer_account(wret),
                   op |-> "ldap_modify", mods |-> ReplaceAll(mods)]
             ELSE [res |-> ADCLI_SUCCESS, op |-> "none", mods |-> << >>]
    ELSE [res |-> adcli_ldap_handle_failure(ADCLI_ERR_DIRECTORY),
          op |-> "none", mods |-> << >>]

\* sret: the outcome of the account search; entry: what it found;
\* wret: the outcome of the add or modify, when one is issued.
\* Hands back the result, the operation issued and its mods.
create_or_update_computer_account(e, allow_overwrite, sret, entry, wret) ==
    IF sret = LDAP_NO_SUCH_OBJECT
    THEN [res |-> create_computer_account(wret), op |-> "ldap_add",
          mods |-> adcli_ldap_prune_empty_mods(AccountMods(e))]
    ELSE IF sret = LDAP_SUCCESS
    THEN IF ~allow_overwrite
         THEN [res |-> ADCLI_ERR_CONFIG, op |-> "none", mods |-> << >>]
         ELSE LET mods == filter_for_necessary_updates(entry, AccountMods(e))
              IN  IF mods # << >>
                  THEN [res |-> modify_computer_account(wret),
                        op |-> "ldap_modify", mods |-> ReplaceAll(mods)]
                  ELSE [res |-> ADCLI_SUCCESS, op |-> "none", mods |-> << >>]
    ELSE [res |-> adcli_ldap_handle_failure(ADCLI_ERR_DIRECTORY),
          op |-> "none", mods |-> << >>]

-----------------------------------------------------------------------------
(* The password setter *)

ADCLI_LOGIN_COMPUTER_ACCOUNT == "ADCLI_LOGIN_COMPUTER_ACCOUNT"
ADCLI_LOGIN_USER_ACCOUNT == "ADCLI_LOGIN_USER_ACCOUNT"

\* code: the transport outcome (0 is success); result_code: the protocol's
set_password_with_user_creds(code, result_code) ==
    IF code # 0 THEN ADCLI_ERR_DIRECTORY
    ELSE IF result_code # 0 THEN ADCLI_ERR_CREDENTIALS
    ELSE ADCLI_SUCCESS

\* kinit: the outcome of getting the kadmin/changepw ticket
set_password_with_computer_creds(kinit, code, result_code) ==
    IF kinit # 0 THEN ADCLI_ERR_DIRECTORY
    ELSE IF code # 0 THEN ADCLI_ERR_DIRECTORY
    ELSE IF result_code # 0 THEN ADCLI_ERR_CREDENTIALS
    ELSE ADCLI_SUCCESS

set_computer_password_always_user_creds(login_type, kinit, code, result_code) == set_password_with_user_creds(code, result_code)

set_computer_password(login_type, kinit, code, result_code) ==
    IF login_type = ADCLI_LOGIN_COMPUTER_ACCOUNT
    THEN set_password_with_computer_creds(kinit, code, result_code)
    ELSE set_password_with_user_creds(code, result_code)

\* the directory after kpasswd accepted a new password for the account at dn
DirSetPassword(dir, dn) ==
    { IF strcasecmp_eq(o.dn, dn) THEN [o EXCEPT !.kvno = o.kvno + 1] ELSE o :
      o \in dir }

-----------------------------------------------------------------------------
(* Numbers in attribute values *)

Digits == << "0", "1", "2", "3", "4", "5", "6", "7", "8", "9" >>

IsDigit(c) == \E i \in DOMAIN Digits : Digits[i] = c

DigitValue(c) == (CHOOSE i \in DOMAIN Digits : Digits[i] = c) - 1

\* strtoul (value, &end, 10) on a string of digits and other characters:
\* the number its leading digits spell, and what is left at end
RECURSIVE strtoul_from(_, _)
strtoul_from(s, acc) ==
    IF s # << >> /\ IsDigit(Head(s))
    THEN strtoul_from(Tail(s), acc * 10 + DigitValue(Head(s)))
    ELSE [value |-> acc, end |-> s]

strtoul(s) == strtoul_from(s, 0)

\* printf's %d / %lu for a natural number
RECURSIVE FormatDecimal(_)
FormatDecimal(n) ==
    IF n < 10 THEN << Digits[n + 1] >>
    ELSE FormatDecimal(n \div 10) \o << Digits[(n % 10) + 1] >>

\* _adcli_ldap_parse_value: a value of the attribute in the first entry
adcli_ldap_parse_value(entry, attr) ==
    IF \E o \in entry : o.attrs[attr] # {}
    THEN CHOOSE v \in UNION { o.attrs[attr] : o \in entry } : TRUE
    ELSE NULL

-----------------------------------------------------------------------------
(* The attribute read-back *)

\* the read-back with a reader that stops at the first character that is
\* not a digit and takes what it has read
retrieve_computer_account_info_leading_digits(e, ret, entry) ==
    IF ret # LDAP_SUCCESS
    THEN Ret(adcli_ldap_handle_failure(ADCLI_ERR_DIRECTORY), e)
    ELSE LET e1 == [e EXCEPT !.computer_attributes = entry]
             value == adcli_ldap_parse_value(entry, "msDS-KeyVersionNumber")
         IN  IF e.kvno # 0 THEN Ret(ADCLI_SUCCESS, e1)
             ELSE IF value = NULL
             THEN Ret(ADCLI_SUCCESS, [e1 EXCEPT !.kvno = 0])
             ELSE Ret(ADCLI_SUCCESS, [e1 EXCEPT !.kvno = strtoul(value).value])

\* ret: the outcome of the search; entry: what it found
retrieve_computer_account_info(e, ret, entry) ==
    IF ret # LDAP_SUCCESS
    THEN Ret(adcli_ldap_handle_failure(ADCLI_ERR_DIRECTORY), e)
    ELSE LET e1 == [e EXCEPT !.computer_attributes = entry]
             value == adcli_ldap_parse_value(entry, "msDS-KeyVersionNumber")
         IN  IF e.kvno # 0 THEN Ret(ADCLI_SUCCESS, e1)
             ELSE IF value = NULL
             THEN Ret(ADCLI_SUCCESS, [e1 EXCEPT !.kvno = 0])
             ELSE IF strtoul(value).end # << >>
             THEN Ret(ADCLI_ERR_DIRECTORY, e1)
             ELSE Ret(ADCLI_SUCCESS, [e1 EXCEPT !.kvno = strtoul(value).value])

-----------------------------------------------------------------------------
(* The attribute synchronizer *)

default_enctypes ==
    << ENCTYPE_AES256_CTS_HMAC_SHA1_96, ENCTYPE_AES128_CTS_HMAC_SHA1_96,
       ENCTYPE_DES3_CBC_SHA1, ENCTYPE_ARCFOUR_HMAC,
       ENCTYPE_DES_CBC_MD5, ENCTYPE_DES_CBC_CRC >>

adcli_enroll_get_keytab_enctypes(e) ==
    IF e.keytab_enctypes # NoEnctypes THEN e.keytab_enctypes
    ELSE default_enctypes

\* the bit of msDS-supportedEncryptionTypes for an enctype, 0 if it has none
EnctypeBit(enctype) ==
    CASE enctype = ENCTYPE_DES_CBC_CRC -> 1
      [] enctype = ENCTYPE_DES_CBC_MD5 -> 2
      [] enctype = ENCTYPE_ARCFOUR_HMAC -> 4
      [] enctype = ENCTYPE_AES128_CTS_HMAC_SHA1_96 -> 8
      [] enctype = ENCTYPE_AES256_CTS_HMAC_SHA1_96 -> 16
      [] OTHER -> 0

RECURSIVE SumBits(_)
SumBits(set) ==
    IF set = {} THEN 0
    ELSE LET x == CHOOSE x \in set : TRUE
         IN  EnctypeBit(x) + SumBits(set \ {x})

\* _adcli_krb5_format_enctypes: the decimal bit mask, NULL when no enctype
\* of the list has a bit
adcli_krb5_format_enctypes(enctypes) ==
    LET mask == SumBits({ enctypes[i] : i \in DOMAIN enctypes })
    IN  IF mask = 0 THEN NULL ELSE FormatDecimal(mask)

\* _adcli_krb5_parse_enctypes: the enctypes of a decimal bit mask, strongest
\* first; NoEnctypes when the value is no number or names no enctype
adcli_krb5_parse_enctypes(value) ==
    LET parsed == strtoul(value)
        list == SelectSeq(<< ENCTYPE_AES256_CTS_HMAC_SHA1_96,
                             ENCTYPE_AES128_CTS_HMAC_SHA1_96,
                             ENCTYPE_ARCFOUR_HMAC, ENCTYPE_DES_CBC_MD5,
                             ENCTYPE_DES_CBC_CRC >>,
                          LAMBDA t : (parsed.value \div EnctypeBit(t)) % 2 = 1)
    IN  IF value = << >> \/ parsed.end # << >> \/ list = << >>
        THEN NoEnctypes
        ELSE list

\* ret: the outcome of ldap_modify_ext_s, when one is issued.
\* Hands back the result, the context, and the mods of the modify issued.
update_and_calculate_enctypes(e, ret) ==
    LET value == adcli_ldap_parse_value(e.computer_attributes,
                                        "msDS-supportedEncryptionTypes")
        e1 == IF ~e.keytab_enctypes_explicit /\ value # NULL
                 /\ adcli_krb5_parse_enctypes(value) # NoEnctypes
              THEN [e EXCEPT !.keytab_enctypes =
                                 adcli_krb5_parse_enctypes(value)]
              ELSE e
        new_value ==
            adcli_krb5_format_enctypes(adcli_enroll_get_keytab_enctypes(e1))
        mods == IF new_value = NULL \/ (value # NULL /\ new_value = value)
                THEN << >>
                ELSE filter_for_necessary_updates(e1.computer_attributes,
                         << Mod(LDAP_MOD_REPLACE,
                                "msDS-supportedEncryptionTypes",
                                { new_value }) >>)
    IN  [res |-> IF new_value = NULL THEN ADCLI_ERR_CONFIG
                 ELSE IF mods = << >> THEN ADCLI_SUCCESS
                 ELSE IF ret = LDAP_INSUFFICIENT_ACCESS
                 THEN adcli_ldap_handle_failure(ADCLI_ERR_CREDENTIALS)
                 ELSE IF ret # LDAP_SUCCESS
                 THEN adcli_ldap_handle_failure(ADCLI_ERR_DIRECTORY)
                 ELSE ADCLI_SUCCESS,
         enroll |-> e1,
         mods |-> mods]

\* the common tail of update_dns_host_name and update_service_principals
UpdateAttribute(e, mod, ret) ==
    LET mods == filter_for_necessary_updates(e.computer_attributes, << mod >>)
    IN  [res |-> IF mods = << >> THEN ADCLI_SUCCESS
                 ELSE IF ret = LDAP_INSUFFICIENT_ACCESS
                 THEN adcli_ldap_handle_failure(ADCLI_ERR_CREDENTIALS)
                 ELSE IF ret # LDAP_SUCCESS
                 THEN adcli_ldap_handle_failure(ADCLI_ERR_DIRECTORY)
                 ELSE ADCLI_SUCCESS,
         enroll |-> e,
         mods |-> mods]

update_dns_host_name(e, ret) ==
    UpdateAttribute(e,
        Mod(LDAP_MOD_REPLACE, "dNSHostName",
            IF e.host_fqdn = NULL THEN {} ELSE { e.host_fqdn }),
        ret)

update_service_principals(e, ret) ==
    UpdateAttribute(e,
        Mod(LDAP_MOD_REPLACE, "servicePrincipalName",
            { e.service_principals[i] : i \in DOMAIN e.service_principals }),
        ret)

-----------------------------------------------------------------------------
(* The keytab writer *)

\* a keytab entry: the key is what the password, salt and enctype derive
Entry(principal, vno, enctype, password, salt) ==
    [principal |-> principal, vno |-> vno, enctype |-> enctype,
     key |-> [password |-> password, salt |-> salt]]

match_principal_and_kvno_keeps_all_older(entry, closure) ==
    IF entry.vno + 1 <= closure.kvno THEN FALSE
    ELSE krb5_principal_compare(entry.principal, closure.principal)

match_principal_and_kvno_any_principal(entry, closure) ==
    IF entry.vno + 1 = closure.kvno THEN FALSE
    ELSE TRUE

\* whether the clearing scan removes the entry
match_principal_and_kvno(entry, closure) ==
    IF entry.vno + 1 = closure.kvno THEN FALSE
    ELSE IF krb5_principal_compare(entry.principal, closure.principal)
    THEN TRUE
    ELSE FALSE

\* _adcli_krb5_keytab_clear with match_principal_and_kvno: the keytab less
\* the entries the callback matches
adcli_krb5_keytab_clear(kt, closure) ==
    SelectSeq(kt, LAMBDA entry : ~match_principal_and_kvno(entry, closure))

\* krb5_principal2salt: the realm, then the components of the name
krb5_principal2salt(principal) ==
    principal.realm \o SelectSeq(principal.name, LAMBDA c : c # "/")

\* _adcli_krb5_w2k3_salt
adcli_krb5_w2k3_salt(principal, computer_name) ==
    principal.realm \o << "h", "o", "s", "t" >> \o adcli_str_down(computer_name)
    \o << "." >> \o adcli_str_down(principal.realm)

build_principal_salts_w2k3_first(e, principal) ==
    << adcli_krb5_w2k3_salt(principal, FormatS(e.computer_name)),
       krb5_principal2salt(principal),
       NULL >>

\* the three candidates, the last being the null salt
build_principal_salts(e, principal) ==
    << krb5_principal2salt(principal),
       adcli_krb5_w2k3_salt(principal, FormatS(e.computer_name)),
       NULL >>

\* the trial AS-REQs of salt discovery in the order they are made: every
\* candidate with every enctype; accepts is the set of <<candidate, enctype>>
\* the realm accepts
AllTrials(principal, kvno, enctypes, salts, accepts) ==
    [k \in 1..(Len(salts) * Len(enctypes)) |->
        LET i == (k - 1) \div Len(enctypes)
            t == enctypes[((k - 1) % Len(enctypes)) + 1]
        IN  [principal |-> principal, kvno |-> kvno, which |-> i,
             salt |-> salts[i + 1], enctype |-> t,
             accepted |-> << i, t >> \in accepts, realm |-> accepts]]

\* _adcli_krb5_keytab_discover_salt: the trials made, up to the first the
\* realm accepts, and the candidate found (-1: none)
adcli_krb5_keytab_discover_salt(principal, kvno, enctypes, salts, accepts) ==
    LET all == AllTrials(principal, kvno, enctypes, salts, accepts)
        hit == { k \in DOMAIN all : all[k].accepted }
    IN  IF hit = {}
        THEN [code |-> 1, which |-> -1, trials |-> all]
        ELSE LET k == CHOOSE k \in hit : \A j \in hit : k <= j
             IN  [code |-> 0, which |-> all[k].which,
                  trials |-> SubSeq(all, 1, k)]

\* _adcli_krb5_keytab_add_entries: one entry per enctype of the list
adcli_krb5_keytab_add_entries(principal, kvno, password, enctypes, salt) ==
    [k \in DOMAIN enctypes |->
        Entry(principal, kvno, enctypes[k], password, salt)]

NeedsDiscovery_always(which) == TRUE

\* if (*which_salt < 0)
NeedsDiscovery(which) == which < 0

\* &salts[*which_salt]
SelectedSalt(salts, which) == salts[which + 1]

EntryVno_next(e) == e.kvno + 1

\* the version the entries are written at
EntryVno(e) == e.kvno

add_principal_to_keytab_salt_by_keytab(e, kt, principal, which_in, cleared, ub, accepts, added) ==
    LET closure == [kvno |-> e.kvno, principal |-> principal]
        kt1 == adcli_krb5_keytab_clear(kt, closure)
        enctypes == adcli_enroll_get_keytab_enctypes(e)
        salts == build_principal_salts(e, principal)
        found == adcli_krb5_keytab_discover_salt(principal, e.kvno, enctypes,
                                                 salts, accepts)
        probe == NeedsDiscovery(which_in)
        which == IF ~probe THEN which_in
                 ELSE IF kt1 = << >> THEN found.which ELSE 2
        new == adcli_krb5_keytab_add_entries(principal, EntryVno(e),
                   e.computer_password, enctypes, SelectedSalt(salts, which))
        nothing == [res |-> ADCLI_ERR_FAIL, keytab |-> kt,
                    which_salt |-> which_in, trials |-> << >>,
                    added |-> << >>, probed |-> FALSE]
    IN  IF ~cleared THEN nothing
        ELSE IF e.computer_name = NULL /\ ub = UB_CRASHES
        THEN [nothing EXCEPT !.res = ABORTED, !.keytab = kt1]
        ELSE IF probe /\ found.code # 0
        THEN [nothing EXCEPT !.res = ADCLI_ERR_DIRECTORY, !.keytab = kt1,
                             !.trials = found.trials, !.probed = TRUE]
        ELSE IF ~added
        THEN [nothing EXCEPT !.keytab = kt1, !.which_salt = which,
                             !.trials = IF probe THEN found.trials ELSE << >>,
                             !.probed = probe]
        ELSE [res |-> ADCLI_SUCCESS, keytab |-> kt1 \o new,
              which_salt |-> which,
              trials |-> IF probe THEN found.trials ELSE << >>,
              added |-> new, probed |-> probe]

\* kt: the keytab; cleared, added: whether the clearing scan and the writes
\* go through; accepts: what the realm accepts in trial AS-REQs.
\* Hands back the result, the keytab, the salt candidate in use, the trials
\* made and the entries added.
add_principal_to_keytab(e, kt, principal, which_in, cleared, ub, accepts, added) ==
    LET closure == [kvno |-> e.kvno, principal |-> principal]
        kt1 == adcli_krb5_keytab_clear(kt, closure)
        enctypes == adcli_enroll_get_keytab_enctypes(e)
        salts == build_principal_salts(e, principal)
        found == adcli_krb5_keytab_discover_salt(principal, e.kvno, enctypes,
                                                 salts, accepts)
        probe == NeedsDiscovery(which_in)
        which == IF probe THEN found.which ELSE which_in
        new == adcli_krb5_keytab_add_entries(principal, EntryVno(e),
                   e.computer_password, enctypes, SelectedSalt(salts, which))
        nothing == [res |-> ADCLI_ERR_FAIL, keytab |-> kt,
                    which_salt |-> which_in, trials |-> << >>,
                    added |-> << >>, probed |-> FALSE]
    IN  IF ~cleared THEN nothing
        ELSE IF e.computer_name = NULL /\ ub = UB_CRASHES
        THEN [nothing EXCEPT !.res = ABORTED, !.keytab = kt1]
        ELSE IF probe /\ found.code # 0
        THEN [nothing EXCEPT !.res = ADCLI_ERR_DIRECTORY, !.keytab = kt1,
                             !.trials = found.trials, !.probed = TRUE]
        ELSE IF ~added
        THEN [nothing EXCEPT !.keytab = kt1, !.which_salt = which,
                             !.trials = IF probe THEN found.trials ELSE << >>,
                             !.probed = probe]
        ELSE [res |-> ADCLI_SUCCESS, keytab |-> kt1 \o new,
              which_salt |-> which,
              trials |-> IF probe THEN found.trials ELSE << >>,
              added |-> new, probed |-> probe]

-----------------------------------------------------------------------------
(* The context: construction, setters, and the reset at the start of a join *)

adcli_enroll_set_host_fqdn(e, value) ==
    [e EXCEPT !.host_fqdn = value, !.host_fqdn_explicit = TRUE]

adcli_enroll_set_computer_name(e, value) ==
    [e EXCEPT !.computer_name = value,
              !.computer_name_explicit = (value # NULL)]

adcli_enroll_set_preferred_ou_keeps_validated(e, value) ==
    [e EXCEPT !.preferred_ou = value]

adcli_enroll_set_preferred_ou(e, value) ==
    [e EXCEPT !.preferred_ou_validated = FALSE, !.preferred_ou = value]

adcli_enroll_set_computer_dn(e, value) == [e EXCEPT !.computer_dn = value]

adcli_enroll_set_service_principals(e, value) ==
    [e EXCEPT !.service_principals = value,
              !.service_principals_explicit = (value # NULLV)]

adcli_enroll_set_kvno(e, value) == [e EXCEPT !.kvno = value]

adcli_enroll_set_keytab_enctypes(e, value) ==
    [e EXCEPT !.keytab_enctypes = value,
              !.keytab_enctypes_explicit = (value # NoEnctypes)]

\* a release of a password buffer by the function named in by
Release(by, zeroed) == [by |-> by, zeroed |-> zeroed]

\* free(): the memory goes back to the allocator as it is
free(by, buffer) ==
    IF buffer = NULL THEN << >> ELSE << Release(by, FALSE) >>

\* _adcli_password_free: the buffer is overwritten with zeroes, then freed
adcli_password_free(by, buffer) ==
    IF buffer = NULL THEN << >> ELSE << Release(by, TRUE) >>

\* adcli_enroll_set_computer_password: the value is copied as it is
adcli_enroll_set_computer_password(e, password) ==
    [e EXCEPT !.computer_password = password,
              !.computer_password_explicit = (password # NULL)]

adcli_enroll_set_computer_password_released(e) ==
    adcli_password_free("adcli_enroll_set_computer_password",
                        e.computer_password)

adcli_enroll_reset_computer_password(e) ==
    [e EXCEPT !.computer_password = NULL,
              !.computer_password_explicit = FALSE,
              !.reset_password = TRUE]

adcli_enroll_reset_computer_password_released(e) ==
    adcli_password_free("adcli_enroll_reset_computer_password",
                        e.computer_password)

\* the password buffers enroll_clear_state releases
enroll_clear_state_released(e) ==
    IF ~e.computer_password_explicit
    THEN free("enroll_clear_state", e.computer_password)
    ELSE << >>

enroll_clear_state_keeps_password(e) ==
    [e EXCEPT !.keytab_principals = << >>,
              !.keytab = FALSE,
              !.computer_sam = NULL,
              !.computer_principal = NoPrincipal,
              !.computer_dn = NULL,
              !.service_principals =
                  IF ~e.service_principals_explicit THEN NULLV ELSE @,
              !.kvno = 0,
              !.computer_attributes = {}]

enroll_clear_state(e) ==
    [e EXCEPT !.keytab_principals = << >>,
              !.keytab = FALSE,
              !.computer_sam = NULL,
              !.computer_principal = NoPrincipal,
              !.computer_password =
                  IF ~e.computer_password_explicit THEN NULL ELSE @,
              !.computer_dn = NULL,
              !.service_principals =
                  IF ~e.service_principals_explicit THEN NULLV ELSE @,
              !.kvno = 0,
              !.computer_attributes = {}]

\* adcli_enroll_unref that frees the context while a reference is left
adcli_enroll_unref_eager(r) == [refs |-> r - 1, freed |-> ~(r - 1 > 1)]

\* adcli_enroll_ref on a context with r references: enroll->refs afterwards
adcli_enroll_ref(r) == r + 1

\* adcli_enroll_unref on a context with r references: enroll->refs
\* afterwards, and whether enroll_free was called
adcli_enroll_unref(r) == [refs |-> r - 1, freed |-> ~(r - 1 > 0)]

\* the password buffers enroll_free releases: those of enroll_clear_state,
\* then the one that is left
enroll_free_released(e) ==
    enroll_clear_state_released(e)
    \o adcli_password_free("enroll_free",
                           enroll_clear_state(e).computer_password)

\* the calls enroll_free makes on the connection
enroll_free_conn == << "adcli_conn_unref" >>

-----------------------------------------------------------------------------
(* adcli_enroll_join as the sequence of its stages *)

JoinStages_keytab_before_password ==
    << "discover", "prepare", "connect", "ou", "container", "calc", "account",
       "keytab", "password", "retrieve", "enctypes", "dnshost", "spns" >>

JoinStages ==
    << "discover", "prepare", "connect", "ou", "container", "calc", "account",
       "password", "retrieve", "enctypes", "dnshost", "spns", "keytab" >>

\* the stages whose result the join does not look at
SoftStages == { "enctypes", "dnshost", "spns" }

StageIndex(stage) == CHOOSE i \in DOMAIN JoinStages : JoinStages[i] = stage

NextStage(stage) ==
    IF StageIndex(stage) = Len(JoinStages) THEN "done"
    ELSE JoinStages[StageIndex(stage) + 1]

AfterStage_ignores_failure(stage, res, e, fl) ==
    IF res = ABORTED THEN "aborted"
    ELSE IF stage = "spns" /\ ADCLI_ENROLL_NO_KEYTAB \in fl THEN "done"
    ELSE IF stage = "connect" /\ e.computer_dn # NULL THEN "account"
    ELSE IF stage = "calc" THEN "account"
    ELSE NextStage(stage)

AfterStage_keytab_always(stage, res, e, fl) ==
    IF res = ABORTED THEN "aborted"
    ELSE IF stage \in SoftStages THEN NextStage(stage)
    ELSE IF res # ADCLI_SUCCESS THEN "done"
    ELSE IF stage = "connect" /\ e.computer_dn # NULL THEN "account"
    ELSE IF stage = "calc" THEN "account"
    ELSE NextStage(stage)

AfterStage_sync_failure_ends(stage, res, e, fl) ==
    IF res = ABORTED THEN "aborted"
    ELSE IF res # ADCLI_SUCCESS THEN "done"
    ELSE IF stage = "spns" /\ ADCLI_ENROLL_NO_KEYTAB \in fl THEN "done"
    ELSE IF stage = "connect" /\ e.computer_dn # NULL THEN "account"
    ELSE IF stage = "calc" THEN "account"
    ELSE NextStage(stage)

\* where the join is after a stage handed back res: e is the context and fl
\* the flags of the join
AfterStage(stage, res, e, fl) ==
    IF res = ABORTED THEN "aborted"
    ELSE IF stage \in SoftStages
    THEN IF stage = "spns" /\ ADCLI_ENROLL_NO_KEYTAB \in fl THEN "done"
         ELSE NextStage(stage)
    ELSE IF res # ADCLI_SUCCESS THEN "done"
    ELSE IF stage = "connect" /\ e.computer_dn # NULL THEN "account"
    ELSE IF stage = "calc" THEN "account"
    ELSE NextStage(stage)

\* what the join returns when it ends after a stage that handed back res
JoinResult(stage, res) ==
    IF stage \in SoftStages THEN ADCLI_SUCCESS ELSE res

\* the bookkeeping every stage shares
Advance(stage, res, e) ==
    /\ stage_log' = Append(stage_log, [stage |-> stage, res |-> res])
    /\ pc' = AfterStage(stage, res, e, flags)
    /\ result' = IF AfterStage(stage, res, e, flags) \in { "done", "aborted" }
                 THEN JoinResult(stage, res)
                 ELSE result

Op(stage, op) == [stage |-> stage, op |-> op]

\* an LDAP request on dn and the answer ret it got
Request(stage, op, dn, mods, ret) ==
    [stage |-> stage, op |-> op, dn |-> dn, mods |-> mods, ret |-> ret]

-----------------------------------------------------------------------------
(* The tool (tools/entry.c): parse_option and the member commands *)

\* an adcli_result as the int it is
ResultCode(res) ==
    CASE res = ADCLI_SUCCESS -> 0
      [] res = ADCLI_ERR_UNEXPECTED -> -2
      [] res = ADCLI_ERR_FAIL -> -3
      [] res = ADCLI_ERR_DIRECTORY -> -4
      [] res = ADCLI_ERR_CONFIG -> -5
      [] res = ADCLI_ERR_CREDENTIALS -> -6

\* the exit status of a command line that is not understood
EUSAGE == 2

\* the password callbacks a connection may hold
PasswordFuncs ==
    { "NULL", "adcli_prompt_password_func", "adcli_read_password_func" }

\* the connection as the tool hands it to a command
adcli_conn_new ==
    [login_ccache_name |-> NULL, login_user |-> NULL, domain_name |-> NULL,
     domain_realm |-> NULL, domain_controller |-> NULL, use_ldaps |-> FALSE,
     password_func |-> "adcli_prompt_password_func",
     allowed_login_types |-> {}]

\* no_password, prompt_password and stdin_password of parse_option, as the
\* program starts with them
parse_option_statics ==
    [no_password |-> 0, prompt_password |-> 0, stdin_password |-> 0]

\* the options the commands hand to parse_option
Options ==
    { "opt_login_ccache", "opt_login_user", "opt_domain", "opt_domain_realm",
      "opt_domain_controller", "opt_no_password", "opt_prompt_password",
      "opt_stdin_password", "opt_use_ldaps", "opt_verbose" }

PasswordOptions ==
    { "opt_no_password", "opt_prompt_password", "opt_stdin_password" }

\* parse_option that lets a later password option replace an earlier one
parse_option_last_wins(opt, optarg, c, st) ==
    CASE opt = "opt_login_ccache" ->
             [ret |-> ResultCode(ADCLI_SUCCESS), statics |-> st,
              conn |-> [c EXCEPT !.login_ccache_name = optarg]]
      [] opt = "opt_login_user" ->
             [ret |-> ResultCode(ADCLI_SUCCESS), statics |-> st,
              conn |-> [c EXCEPT !.login_user = optarg]]
      [] opt = "opt_domain" ->
             [ret |-> ResultCode(ADCLI_SUCCESS), statics |-> st,
              conn |-> [c EXCEPT !.domain_name = optarg]]
      [] opt = "opt_domain_realm" ->
             [ret |-> ResultCode(ADCLI_SUCCESS), statics |-> st,
              conn |-> [c EXCEPT !.domain_realm = optarg]]
      [] opt = "opt_domain_controller" ->
             [ret |-> ResultCode(ADCLI_SUCCESS), statics |-> st,
              conn |-> [c EXCEPT !.domain_controller = optarg]]
      [] opt = "opt_no_password" ->
             [ret |-> ResultCode(ADCLI_SUCCESS),
              statics |-> [st EXCEPT !.no_password = 1],
              conn |-> [c EXCEPT !.password_func = "NULL"]]
      [] opt = "opt_prompt_password" ->
             [ret |-> ResultCode(ADCLI_SUCCESS),
              statics |-> [st EXCEPT !.prompt_password = 1],
              conn |-> [c EXCEPT !.password_func =
                                     "adcli_prompt_password_func"]]
      [] opt = "opt_stdin_password" ->
             [ret |-> ResultCode(ADCLI_SUCCESS),
              statics |-> [st EXCEPT !.stdin_password = 1],
              conn |-> [c EXCEPT !.password_func =
                                     "adcli_read_password_func"]]
      [] opt = "opt_use_ldaps" ->
             [ret |-> ResultCode(ADCLI_SUCCESS), statics |-> st,
              conn |-> [c EXCEPT !.use_ldaps = TRUE]]
      [] opt = "opt_verbose" ->
             [ret |-> ResultCode(ADCLI_SUCCESS), statics |-> st, conn |-> c]

\* parse_option: what it returns, and the static variables and the
\* connection as it leaves them
parse_option(opt, optarg, c, st) ==
    CASE opt = "opt_login_ccache" ->
             [ret |-> ResultCode(ADCLI_SUCCESS), statics |-> st,
              conn |-> [c EXCEPT !.login_ccache_name = optarg]]
      [] opt = "opt_login_user" ->
             [ret |-> ResultCode(ADCLI_SUCCESS), statics |-> st,
              conn |-> [c EXCEPT !.login_user = optarg]]
      [] opt = "opt_domain" ->
             [ret |-> ResultCode(ADCLI_SUCCESS), statics |-> st,
              conn |-> [c EXCEPT !.domain_name = optarg]]
      [] opt = "opt_domain_realm" ->
             [ret |-> ResultCode(ADCLI_SUCCESS), statics |-> st,
              conn |-> [c EXCEPT !.domain_realm = optarg]]
      [] opt = "opt_domain_controller" ->
             [ret |-> ResultCode(ADCLI_SUCCESS), statics |-> st,
              conn |-> [c EXCEPT !.domain_controller = optarg]]
      [] opt = "opt_no_password" ->
             IF st.stdin_password # 0 \/ st.prompt_password # 0
             THEN [ret |-> EUSAGE, statics |-> st, conn |-> c]
             ELSE [ret |-> ResultCode(ADCLI_SUCCESS),
                   statics |-> [st EXCEPT !.no_password = 1],
                   conn |-> [c EXCEPT !.password_func = "NULL"]]
      [] opt = "opt_prompt_password" ->
             IF st.stdin_password # 0 \/ st.no_password # 0
             THEN [ret |-> EUSAGE, statics |-> st, conn |-> c]
             ELSE [ret |-> ResultCode(ADCLI_SUCCESS),
                   statics |-> [st EXCEPT !.prompt_password = 1],
                   conn |-> [c EXCEPT !.password_func =
                                          "adcli_prompt_password_func"]]
      [] opt = "opt_stdin_password" ->
             IF st.prompt_password # 0 \/ st.no_password # 0
             THEN [ret |-> EUSAGE, statics |-> st, conn |-> c]
             ELSE [ret |-> ResultCode(ADCLI_SUCCESS),
                   statics |-> [st EXCEPT !.stdin_password = 1],
                   conn |-> [c EXCEPT !.password_func =
                                          "adcli_read_password_func"]]
      [] opt = "opt_use_ldaps" ->
             [ret |-> ResultCode(ADCLI_SUCCESS), statics |-> st,
              conn |-> [c EXCEPT !.use_ldaps = TRUE]]
      [] opt = "opt_verbose" ->
             [ret |-> ResultCode(ADCLI_SUCCESS), statics |-> st, conn |-> c]

\* expand_user_dn_as_member that passes over a user without a DN
expand_user_dn_as_member_skips_missing(attrs, user, adding, res, dn) ==
    IF res # ADCLI_SUCCESS
    THEN [ret |-> -ResultCode(res), attrs |-> attrs]
    ELSE IF dn = NULL
         THEN [ret |-> ResultCode(ADCLI_SUCCESS), attrs |-> attrs]
         ELSE [ret |-> ResultCode(ADCLI_SUCCESS),
               attrs |-> Append(attrs,
                   [call |-> IF adding THEN "adcli_attrs_add1"
                                       ELSE "adcli_attrs_delete1",
                    type |-> "member", value |-> dn])]

\* expand_user_dn_as_member: res is what adcli_entry_load answers for the
\* user and dn what adcli_entry_get_dn hands back; what the function
\* returns, and attrs as it leaves them
expand_user_dn_as_member(attrs, user, adding, res, dn) ==
    IF res # ADCLI_SUCCESS
    THEN [ret |-> -ResultCode(res), attrs |-> attrs]
    ELSE IF dn = NULL
         THEN [ret |-> -ResultCode(ADCLI_ERR_CONFIG), attrs |-> attrs]
         ELSE [ret |-> ResultCode(ADCLI_SUCCESS),
               attrs |-> Append(attrs,
                   [call |-> IF adding THEN "adcli_attrs_add1"
                                       ELSE "adcli_attrs_delete1",
                    type |-> "member", value |-> dn])]

\* no command of the tool is running
NoCommand ==
    [pc |-> "none", adding |-> FALSE, argc |-> 0, argv |-> << >>,
     opt |-> "none", ret |-> 0, parsed |-> 0, i |-> 0, attrs |-> << >>,
     log |-> << >>, status |-> 0]

\* the tool before it has parsed or run anything
InitTool ==
    /\ conn = adcli_conn_new
    /\ statics = parse_option_statics
    /\ tool = NoCommand

-----------------------------------------------------------------------------
(* What the caller passes in, and what the outside world holds and answers *)

HostFqdnValues == { << "h", "1" >>, << ".", "c" >>, NULL }

ComputerNameValues == { << "h", "1" >> }

ServicePrincipalValues ==
    { << << "S", "/", "h", "1" >>, << "S", "/", "h", "1" >> >>,
      << << "S", "\\" >> >> }

\* a list that names an enctype twice, and one whose only enctype has no
\* bit in msDS-supportedEncryptionTypes
EnctypeValues ==
    { << ENCTYPE_AES128_CTS_HMAC_SHA1_96, ENCTYPE_AES128_CTS_HMAC_SHA1_96 >>,
      << ENCTYPE_DES3_CBC_SHA1 >> }

ComputerDnValues == { << "C", "N", "=", "x", ",", "D", "C", "=", "c" >> }

FlagValues == SUBSET { ADCLI_ENROLL_NO_KEYTAB, ADCLI_ENROLL_ALLOW_OVERWRITE }

GeneratedPasswords == { << "p", "w" >>, << "q", "x" >> }

OldPassword == << "o", "l", "d" >>

Principal(name) == [name |-> name, realm |-> DomainRealm]

\* the principals that have entries in a keytab that is not empty at first
OldPrincipals ==
    { Principal(<< "H", "2", "$" >>), Principal(<< "h", "1", "$" >>),
      Principal(<< "H", "O", "S", "T", "/", "H", "2" >>), Principal(<< "S", "/", "h", "1" >>),
      Principal(<< "o", "t", "h", "e", "r" >>) }

\* a set as a sequence, in some order
RECURSIVE SeqOf(_)
SeqOf(set) ==
    IF set = {} THEN << >>
    ELSE LET x == CHOOSE x \in set : TRUE
         IN  << x >> \o SeqOf(set \ {x})

OldEntries ==
    SeqOf({ Entry(p, v, ENCTYPE_AES128_CTS_HMAC_SHA1_96, OldPassword, NULL) :
            p \in OldPrincipals, v \in 1..MaxOldVno })

InitialKeytabs == { OldEntries }

ComputersContainer == << "C", "N", "=", "C", "o", "m", "p", "u", "t", "e", "r", "s", ",", "D", "C", "=", "c" >>

ExistingAccount ==
    [dn |-> << "C", "N", "=", "H", "2", "," >> \o ComputersContainer,
     kvno |-> ExistingKvno,
     attrs |-> [NoValues EXCEPT
         !["objectClass"] = { << "t", "o", "p" >>, ObjectClassComputer },
         !["sAMAccountName"] = { << "h", "2", "$" >> },
         !["userAccountControl"] = { << "4", "0", "9", "6" >> },
         !["msDS-supportedEncryptionTypes"] = { << "2", "4" >> }]]

\* an account that already is what a join with the computer name h1 wants
JoinedAccount ==
    [dn |-> << "C", "N", "=", "h", "1", "," >> \o ComputersContainer,
     kvno |-> ExistingKvno,
     attrs |-> [NoValues EXCEPT
         !["objectClass"] = { << "t", "o", "p" >>, ObjectClassComputer },
         !["sAMAccountName"] = { << "h", "1", "$" >> },
         !["userAccountControl"] = { UserAccountControl }]]

InitialDirectories == { {}, { ExistingAccount, JoinedAccount } }

LdapWriteResults ==
    { LDAP_SUCCESS, LDAP_INSUFFICIENT_ACCESS, LDAP_OBJECT_CLASS_VIOLATION,
      LDAP_SERVER_DOWN }

\* a realm that accepts the salt candidate i with every enctype
AcceptsCandidate(enctypes, i) == { << i, enctypes[k] >> : k \in DOMAIN enctypes }

\* what the realm may accept in trial AS-REQs: nothing; one of the three
\* salt candidates with every enctype; or the second candidate with the last
\* enctype only and the third with every enctype
RealmResponses(enctypes) ==
    { {} }
    \cup { AcceptsCandidate(enctypes, i) : i \in 0..2 }
    \cup { { << 1, enctypes[Len(enctypes)] >> }
           \cup AcceptsCandidate(enctypes, 2) }

-----------------------------------------------------------------------------
(* Initial state: a new context, before any setter is called *)

\* The outside world of one behaviour varies in the aspects named in world:
\*   "faults"     requests fail (a failure ends the join, or the round)
\*   "container"  how the computer container is found
\*   "login"      the login type of the connection
\*   "kvno"       the form of msDS-KeyVersionNumber the read-back finds
\*   "sync"       the writes of the attribute synchronizer are refused
\*   "realm"      which salt candidates the realm accepts
\*   "password"   which octets the random source hands out
\*   "ou"         what the directory says of the preferred OU
\*   "setters"    the caller makes one setter call more before the join
\*   "enctypes"   what msDS-supportedEncryptionTypes the read-back finds
\* In an aspect that does not vary the world answers plainly.
Aspects ==
    { "faults", "container", "login", "kvno", "sync", "realm", "password",
      "ou", "setters", "enctypes" }

\* the answers of the outside world to a request: all of them where the
\* aspect varies, the plain ones where it does not
Answers(aspect, all, plain) == IF aspect \in world THEN all ELSE plain

InitWorld(worlds) ==
    /\ enroll = adcli_enroll_new
    /\ pc = "idle"
    /\ flags = {}
    /\ result = "none"
    /\ keytab_file \in InitialKeytabs
    /\ directory \in InitialDirectories
    /\ kt_index = 0
    /\ which_salt = -1
    /\ log = << >>
    /\ stage_log = << >>
    /\ prepare_results = << >>
    /\ trials = << >>
    /\ written = << >>
    /\ kt_before = keytab_file
    /\ setter_calls = 0
    /\ enroll_before = adcli_enroll_new
    /\ ldap_log = << >>
    /\ password_log = << >>
    /\ world \in worlds
    /\ previous = << >>
    /\ released = << >>
    /\ refs = 1
    /\ teardowns = 0
    /\ conn_log = << "adcli_conn_ref" >>
    /\ gen_length = 0
    /\ gen_password = << >>
    /\ gen_at = 0
    /\ gen_octets = << >>
    /\ gen_kept = 0

\* requests may fail, and one more aspect of the world varies
Worlds == { { "faults", a } : a \in Aspects \ { "faults" } }

Init == InitWorld(Worlds) /\ InitTool

\* no request fails
\* ("fqdn": the caller sets another host_fqdn between two joins)
RejoinWorlds ==
    { {}, { "login" }, { "password" }, { "ou" }, { "fqdn" }, { "enctypes" } }

InitRejoin == InitWorld(RejoinWorlds) /\ InitTool

-----------------------------------------------------------------------------
(* The setters *)

Setter(e) ==
    /\ pc = "idle"
    /\ setter_calls < MaxSetterCalls + Answers("setters", 1, 0)
    /\ enroll' = e
    /\ setter_calls' = setter_calls + 1
    /\ UNCHANGED << pc, flags, result, keytab_file, directory, kt_index,
                    which_salt, log, stage_log, prepare_results, trials,
                    written, kt_before, enroll_before, ldap_log,
                    password_log, world, tools,
                    released, lifecycle, generator, previous >>

SetHostFqdn ==
    \E value \in HostFqdnValues :
        Setter(adcli_enroll_set_host_fqdn(enroll, value))

SetComputerName ==
    \E value \in ComputerNameValues :
        Setter(adcli_enroll_set_computer_name(enroll, value))

SetComputerDn ==
    \E value \in ComputerDnValues :
        Setter(adcli_enroll_set_computer_dn(enroll, value))

\* the naming context in another case, and an OU below it
PreferredOuSettings ==
    { << "d", "c", "=", "C" >>, << "O", "U", "=", "x", ",", "D", "C", "=", "c" >> }

SetPreferredOu ==
    \E value \in PreferredOuSettings :
        Setter(adcli_enroll_set_preferred_ou(enroll, value))

\* a setter called after a join has returned and before the next one
SetterBetweenJoins(e) ==
    /\ pc = "done"
    /\ Len(previous) + 1 < MaxJoins
    /\ setter_calls < MaxSetterCalls + Len(previous) + 1
    /\ enroll' = e
    /\ setter_calls' = setter_calls + 1
    /\ UNCHANGED << pc, flags, result, keytab_file, directory, kt_index,
                    which_salt, log, stage_log, prepare_results, trials,
                    written, kt_before, enroll_before, ldap_log,
                    password_log, world, tools,
                    released, lifecycle, generator, previous >>

SetPreferredOuAgain ==
    /\ "ou" \in world
    /\ \E value \in PreferredOuSettings :
           SetterBetweenJoins(adcli_enroll_set_preferred_ou(enroll, value))

\* a password inside the range the generator keeps to, and one with a tilde
ExplicitPasswords == { << "s", "3" >>, << "s", "~" >> }

\* a setter of the password, called before the join: the context becomes e,
\* and the buffers in freed are released
PasswordSetter(e, freed) ==
    /\ pc = "idle"
    /\ "password" \in world
    /\ setter_calls < MaxSetterCalls + Answers("setters", 1, 0)
    /\ enroll' = e
    /\ released' = released \o freed
    /\ setter_calls' = setter_calls + 1
    /\ UNCHANGED << pc, flags, result, keytab_file, directory, kt_index,
                    which_salt, log, stage_log, prepare_results, trials,
                    written, kt_before, enroll_before, ldap_log,
                    password_log, world, tools, lifecycle, generator, previous >>

SetComputerPassword ==
    \E value \in ExplicitPasswords :
        PasswordSetter(adcli_enroll_set_computer_password(enroll, value),
                       adcli_enroll_set_computer_password_released(enroll))

ResetComputerPassword ==
    PasswordSetter(adcli_enroll_reset_computer_password(enroll),
                   adcli_enroll_reset_computer_password_released(enroll))

\* adcli_enroll_set_computer_password called between two joins
SetComputerPasswordAgain ==
    /\ pc = "done"
    /\ "password" \in world
    /\ Len(previous) + 1 < MaxJoins
    /\ setter_calls < MaxSetterCalls + Len(previous) + 1
    /\ \E value \in ExplicitPasswords :
           /\ enroll' = adcli_enroll_set_computer_password(enroll, value)
           /\ released' = released
                  \o adcli_enroll_set_computer_password_released(enroll)
    /\ setter_calls' = setter_calls + 1
    /\ UNCHANGED << pc, flags, result, keytab_file, directory, kt_index,
                    which_salt, log, stage_log, prepare_results, trials,
                    written, kt_before, enroll_before, ldap_log,
                    password_log, world, tools, lifecycle, generator, previous >>

\* a host_fqdn other than the one the connection knows of
OtherHostFqdnValues == { << "h", "3", ".", "c" >> }

\* adcli_enroll_set_host_fqdn called between two joins
SetHostFqdnAgain ==
    /\ "fqdn" \in world
    /\ \E value \in OtherHostFqdnValues :
           SetterBetweenJoins(adcli_enroll_set_host_fqdn(enroll, value))

SetServicePrincipals ==
    \E value \in ServicePrincipalValues :
        Setter(adcli_enroll_set_service_principals(enroll, value))

SetKeytabEnctypes ==
    \E value \in EnctypeValues :
        Setter(adcli_enroll_set_keytab_enctypes(enroll, value))

\* a version number no account of the directory is at
KvnoSettings == { ExistingKvno + 5 }

SetKvno ==
    \E value \in KvnoSettings : Setter(adcli_enroll_set_kvno(enroll, value))

-----------------------------------------------------------------------------
(* The stages of adcli_enroll_join *)

\* enroll_clear_state, then adcli_conn_discover
\* the outcomes of formatting computer_name with %s: undefined when it is NULL
UndefinedFor(e) ==
    IF e.computer_name = NULL THEN UndefinedOutcomes ELSE { UB_PRINTS_NULL }

\* the start of adcli_enroll_join with the flags fl: enroll_clear_state, then
\* adcli_conn_discover, which hands back res.  The histories start afresh.
StartJoin(fl, res) ==
    /\ flags' = fl
    /\ enroll_before' = enroll
    /\ enroll' = enroll_clear_state(enroll)
    /\ kt_before' = keytab_file
    /\ kt_index' = 0
    /\ which_salt' = -1
    /\ log' = << Op("discover", "conn_discover") >>
    /\ stage_log' = << [stage |-> "discover", res |-> res,
                         setter_calls |-> setter_calls] >>
    /\ prepare_results' = << >>
    /\ trials' = << >>
    /\ written' = << >>
    /\ ldap_log' = << >>
    /\ password_log' = << >>
    /\ pc' = AfterStage("discover", res, enroll_clear_state(enroll), fl)
    /\ result' = IF res # ADCLI_SUCCESS THEN JoinResult("discover", res)
                 ELSE "none"
    /\ released' = released \o enroll_clear_state_released(enroll)
    /\ UNCHANGED << keytab_file, directory, setter_calls, world, tools, lifecycle,
                    generator >>

JoinDiscover ==
    /\ pc = "idle"
    /\ \E fl \in FlagValues,
          res \in Answers("faults", { ADCLI_SUCCESS, ADCLI_ERR_DIRECTORY },
                          { ADCLI_SUCCESS }) :
           /\ StartJoin(fl, res)
           /\ UNCHANGED previous

\* what a join that returned leaves for the record, with the number of
\* setter calls made before it started
JoinSummary ==
    [flags |-> flags, result |-> result, kvno |-> enroll.kvno,
     computer_password |-> enroll.computer_password,
     computer_dn |-> enroll.computer_dn,
     computer_name |-> enroll.computer_name,
     setter_calls |-> stage_log[1].setter_calls]

\* the caller runs adcli_enroll_join again on the same context
JoinAgain ==
    /\ pc = "done"
    /\ Len(previous) + 1 < MaxJoins
    /\ \E fl \in FlagValues,
          res \in Answers("faults", { ADCLI_SUCCESS, ADCLI_ERR_DIRECTORY },
                          { ADCLI_SUCCESS }) :
           /\ StartJoin(fl, res)
           /\ previous' = Append(previous, JoinSummary)

JoinPrepare ==
    /\ pc = "prepare"
    /\ \E ub \in UndefinedFor(enroll),
          generated \in Answers("password", GeneratedPasswords,
                                { << "p", "w" >> }),
          opened \in (IF ADCLI_ENROLL_NO_KEYTAB \in flags THEN { TRUE }
                      ELSE Answers("faults", BOOLEAN, { TRUE })),
          asserts \in BOOLEAN :
           LET steps == PrepareSteps(enroll, flags, ub, generated, opened,
                                     asserts)
               r == adcli_enroll_prepare(enroll, flags, ub, generated, opened,
                                         asserts)
           IN  /\ enroll' = r.enroll
               /\ prepare_results' = [i \in DOMAIN steps |-> steps[i].res]
               /\ log' = IF ADCLI_ENROLL_NO_KEYTAB \notin flags
                            /\ steps[4].res = ADCLI_SUCCESS
                         THEN Append(log, Op("prepare", "kt_open"))
                         ELSE log
               /\ Advance("prepare", r.res, r.enroll)
               /\ UNCHANGED << flags, keytab_file, directory, kt_index,
                               which_salt, trials, written, kt_before,
                               setter_calls, enroll_before, ldap_log,
                               password_log, world, tools,
                               released, lifecycle, generator,
                               previous >>

JoinConnect ==
    /\ pc = "connect"
    /\ \E res \in Answers("faults", { ADCLI_SUCCESS, ADCLI_ERR_CREDENTIALS,
                                      ADCLI_ERR_DIRECTORY },
                            { ADCLI_SUCCESS }) :
           /\ log' = Append(log, Op("connect", "conn_connect"))
           /\ Advance("connect", res, enroll)
           /\ UNCHANGED << enroll, flags, keytab_file, directory, kt_index,
                           which_salt, prepare_results, trials, written,
                           kt_before, setter_calls, enroll_before, ldap_log,
                               password_log, world, tools,
                               released, lifecycle, generator, previous >>

PreferredOuValues == { NULL }

JoinPreferredOu ==
    /\ pc = "ou"
    /\ \E cmp \in (IF enroll.preferred_ou # NULL
                    THEN Answers("ou",
                                 { LDAP_COMPARE_TRUE, LDAP_COMPARE_FALSE,
                                   LDAP_SERVER_DOWN }, { LDAP_COMPARE_TRUE })
                    ELSE { LDAP_COMPARE_TRUE }),
          ret \in (IF enroll.preferred_ou = NULL
                   THEN Answers("faults", { LDAP_SUCCESS, LDAP_SERVER_DOWN },
                                { LDAP_SUCCESS })
                   ELSE { LDAP_SUCCESS }),
          value \in PreferredOuValues :
           LET r == IF enroll.preferred_ou # NULL
                    THEN validate_preferred_ou(enroll, cmp)
                    ELSE lookup_preferred_ou(enroll, ret, value)
           IN  /\ enroll' = r.enroll
               /\ log' = IF enroll.preferred_ou = NULL
                         THEN Append(log, Op("ou", "ldap_search"))
                         ELSE IF validate_preferred_ou_queries(enroll)
                         THEN Append(log, Op("ou", "ldap_compare"))
                         ELSE log
               /\ ldap_log' =
                      IF enroll.preferred_ou # NULL
                         /\ validate_preferred_ou_queries(enroll)
                      THEN Append(ldap_log,
                                  Request("ou", "ldap_compare",
                                          enroll.preferred_ou, << >>, cmp))
                      ELSE ldap_log
               /\ Advance("ou", r.res, r.enroll)
               /\ UNCHANGED << flags, keytab_file, directory, kt_index,
                               which_salt, prepare_results, trials, written,
                               kt_before, setter_calls, enroll_before,
                               password_log, world, tools,
                               released, lifecycle, generator, previous >>

\* what the directory may answer to the two container searches
ContainerReplies ==
    { [ret1 |-> LDAP_SERVER_DOWN, values |-> << >>,
       ret2 |-> LDAP_SERVER_DOWN, dn |-> NULL],
      [ret1 |-> LDAP_SUCCESS,
       values |-> << << "B", ":", "3", "2", ":", "X", ":", "C", "N", "=", "x" >>,
                     WellKnownPrefix \o ComputersContainer >>,
       ret2 |-> LDAP_SERVER_DOWN, dn |-> NULL],
      [ret1 |-> LDAP_SUCCESS, values |-> << >>,
       ret2 |-> LDAP_SUCCESS, dn |-> ComputersContainer],
      [ret1 |-> LDAP_SUCCESS, values |-> << >>,
       ret2 |-> LDAP_SUCCESS, dn |-> NULL],
      [ret1 |-> LDAP_SUCCESS, values |-> << >>,
       ret2 |-> LDAP_SERVER_DOWN, dn |-> NULL] }

\* the searches lookup_computer_container made, with what they were answered
ContainerSearches(e, reply, n) ==
    [i \in 1..n |->
        [stage |-> "container", op |-> "ldap_search", dn |-> e.preferred_ou,
         mods |-> << >>,
         filter |-> IF i = 1 THEN "(objectClass=*)"
                    ELSE "(&(objectClass=container)(cn=Computers))",
         ret |-> IF i = 1 THEN reply.ret1 ELSE reply.ret2,
         values |-> IF i = 1 THEN reply.values ELSE << >>,
         found |-> IF i = 1 THEN NULL ELSE reply.dn]]

\* the plain reply: the well-known container is there
FoundWellKnown ==
    { reply \in ContainerReplies : FirstWellKnown(reply.values) # NULL }

\* the reply of a directory that cannot be searched
ContainerUnreachable ==
    { reply \in ContainerReplies : reply.ret1 # LDAP_SUCCESS }

\* the computers container of the organizational unit ou
ContainerUnder(ou) ==
    << "C", "N", "=", "C", "o", "m", "p", "u", "t", "e", "r", "s", "," >> \o ou

\* the reply of a directory in which every organizational unit names its own
\* computers container among its wellKnownObjects
WellKnownUnder(ou) ==
    { [ret1 |-> LDAP_SUCCESS,
       values |-> << WellKnownPrefix \o ContainerUnder(ou) >>,
       ret2 |-> LDAP_SUCCESS, dn |-> NULL] }

JoinContainer ==
    /\ pc = "container"
    /\ \E reply \in Answers("container", ContainerReplies,
                              Answers("faults",
                                      Answers("ou",
                                              WellKnownUnder(enroll.preferred_ou),
                                              FoundWellKnown)
                                          \cup ContainerUnreachable,
                                      Answers("ou",
                                              WellKnownUnder(enroll.preferred_ou),
                                              FoundWellKnown))) :
           LET r == lookup_computer_container(enroll, reply.ret1, reply.values,
                                              reply.ret2, reply.dn)
               n == lookup_computer_container_searches(enroll, reply.ret1,
                                                       reply.values)
           IN  /\ enroll' = r.enroll
               /\ log' = log \o [i \in 1..n |-> Op("container", "ldap_search")]
               /\ ldap_log' = ldap_log \o ContainerSearches(enroll, reply, n)
               /\ Advance("container", r.res, r.enroll)
               /\ UNCHANGED << flags, keytab_file, directory, kt_index,
                               which_salt, prepare_results, trials, written,
                               kt_before, setter_calls, enroll_before,
                               password_log, world, tools,
                               released, lifecycle, generator, previous >>

JoinCalcAccount ==
    /\ pc = "calc"
    /\ \E ub \in UndefinedFor(enroll) :
           LET r == calc_computer_account(enroll, ub)
           IN  /\ enroll' = r.enroll
               /\ Advance("calc", r.res, r.enroll)
               /\ UNCHANGED << flags, keytab_file, directory, kt_index,
                               which_salt, log, prepare_results, trials, written,
                               kt_before, setter_calls, enroll_before, ldap_log,
                               password_log, world, tools,
                               released, lifecycle, generator, previous >>

\* what a base search answers when the directory is reached
AccountSearchResult(entry) ==
    IF entry = {} THEN LDAP_NO_SUCH_OBJECT ELSE LDAP_SUCCESS

JoinAccount ==
    /\ pc = "account"
    /\ LET entry == Lookup(directory, enroll.computer_dn) IN
       \E sret \in Answers("faults",
                            { AccountSearchResult(entry), LDAP_SERVER_DOWN,
                              LDAP_INSUFFICIENT_ACCESS },
                            { AccountSearchResult(entry) }),
          wret \in (IF entry = {} \/ ADCLI_ENROLL_ALLOW_OVERWRITE \in flags
                    THEN Answers("faults", LdapWriteResults, { LDAP_SUCCESS })
                    ELSE { LDAP_SUCCESS }) :
           LET r == create_or_update_computer_account(enroll,
                        ADCLI_ENROLL_ALLOW_OVERWRITE \in flags, sret, entry, wret)
           IN  /\ directory' =
                      IF r.op = "ldap_add" /\ wret = LDAP_SUCCESS
                      THEN DirAdd(directory, enroll.computer_dn, r.mods)
                      ELSE IF r.op = "ldap_modify" /\ wret = LDAP_SUCCESS
                      THEN DirModify(directory, enroll.computer_dn, r.mods)
                      ELSE directory
               /\ log' = IF r.op = "none"
                         THEN Append(log, Op("account", "ldap_search"))
                         ELSE log \o << Op("account", "ldap_search"),
                                        Op("account", r.op) >>
               /\ ldap_log' =
                      ldap_log
                      \o << Request("account", "ldap_search",
                                    enroll.computer_dn, << >>, sret) >>
                      \o (IF r.op = "none" THEN << >>
                          ELSE << Request("account", r.op, enroll.computer_dn,
                                          r.mods, wret) >>)
               /\ UNCHANGED password_log
               /\ Advance("account", r.res, enroll)
               /\ UNCHANGED << enroll, flags, keytab_file, kt_index, which_salt,
                               prepare_results, trials, written, kt_before,
                               setter_calls, enroll_before, world, tools,
                               released, lifecycle, generator,
                               previous >>

\* the outcomes of the password change: of getting the kadmin/changepw
\* ticket, of the transport, and the result code of the protocol (which is
\* whatever it is when the transport failed)
PasswordOutcomes ==
    { << 0, 0, 0 >>, << 1, 0, 0 >>, << 0, 1, 0 >>, << 0, 0, 1 >>, << 0, 1, 1 >> }

\* a call of the password setter: the library call made, if any, and what
\* came of it
PasswordCall(login_type, kinit, code, result_code) ==
    IF login_type = ADCLI_LOGIN_COMPUTER_ACCOUNT
    THEN IF kinit # 0
         THEN [login_type |-> login_type, ticket |-> "failed",
               call |-> "none", code |-> 0, result_code |-> 0]
         ELSE [login_type |-> login_type, ticket |-> "ok",
               call |-> "krb5_change_password",
               code |-> code, result_code |-> result_code]
    ELSE [login_type |-> login_type, ticket |-> "none",
          call |-> "krb5_set_password_using_ccache",
          code |-> code, result_code |-> result_code]

JoinPassword ==
    /\ pc = "password"
    /\ \E login_type \in Answers("login", { ADCLI_LOGIN_COMPUTER_ACCOUNT,
                                              ADCLI_LOGIN_USER_ACCOUNT },
                                   { ADCLI_LOGIN_USER_ACCOUNT }),
          outcome \in Answers("faults", PasswordOutcomes, { << 0, 0, 0 >> }) :
           LET kinit == outcome[1]
               code == outcome[2]
               result_code == outcome[3]
           IN
           LET res == set_computer_password(login_type, kinit, code, result_code)
               called == ~(login_type = ADCLI_LOGIN_COMPUTER_ACCOUNT /\ kinit # 0)
           IN  /\ directory' = IF res = ADCLI_SUCCESS
                               THEN DirSetPassword(directory, enroll.computer_dn)
                               ELSE directory
               /\ log' = IF called THEN Append(log, Op("password", "kpasswd"))
                         ELSE log
               /\ password_log' =
                      Append(password_log,
                             PasswordCall(login_type, kinit, code, result_code))
               /\ UNCHANGED ldap_log
               /\ Advance("password", res, enroll)
               /\ UNCHANGED << enroll, flags, keytab_file, kt_index, which_salt,
                               prepare_results, trials, written, kt_before,
                               setter_calls, enroll_before, world, tools,
                               released, lifecycle, generator,
                               previous >>

\* the msDS-KeyVersionNumber values a search may hand back for an account
KvnoForms == { "decimal", "absent", "garbled" }

KvnoValues(o, form) ==
    CASE form = "decimal" -> { FormatDecimal(o.kvno) }
      [] form = "absent" -> {}
      [] form = "garbled" -> { FormatDecimal(o.kvno) \o << "x" >> }

\* the msDS-supportedEncryptionTypes values a search may hand back: what the
\* account holds, or a value that is no bit mask
SupportedEnctypesForms == { "held", "garbled" }

SupportedEnctypesValues(o, form) ==
    CASE form = "held" -> o.attrs["msDS-supportedEncryptionTypes"]
      [] form = "garbled" -> { << "x" >> }

JoinRetrieve ==
    /\ pc = "retrieve"
    /\ \E reply \in ({ LDAP_SUCCESS } \X Answers("kvno", KvnoForms, { "decimal" }))
                      \cup Answers("faults", { << LDAP_SERVER_DOWN, "absent" >> },
                                   {}),
          supported \in Answers("enctypes", SupportedEnctypesForms, { "held" }) :
           LET ret == reply[1]
               form == reply[2]
               entry == { [o EXCEPT !.attrs["msDS-KeyVersionNumber"] =
                                        KvnoValues(o, form),
                                    !.attrs["msDS-supportedEncryptionTypes"] =
                                        SupportedEnctypesValues(o, supported)] :
                          o \in Lookup(directory, enroll.computer_dn) }
               r == retrieve_computer_account_info(enroll, ret, entry)
           IN  /\ enroll' = r.enroll
               /\ log' = Append(log, Op("retrieve", "ldap_search"))
               /\ ldap_log' = Append(ldap_log,
                                     Request("retrieve", "ldap_search",
                                             enroll.computer_dn, << >>, ret))
               /\ UNCHANGED password_log
               /\ Advance("retrieve", r.res, r.enroll)
               /\ UNCHANGED << flags, keytab_file, directory, kt_index,
                               which_salt, prepare_results, trials, written,
                               kt_before, setter_calls, enroll_before, world, tools,
                               released, lifecycle, generator, previous >>

\* the shared shape of the three synchronizer stages
SyncStage(stage, r, ret) ==
    /\ pc = stage
    /\ enroll' = r.enroll
    /\ directory' = IF r.mods # << >> /\ ret = LDAP_SUCCESS
                    THEN DirModify(directory, enroll.computer_dn, r.mods)
                    ELSE directory
    /\ log' = IF r.mods # << >> THEN Append(log, Op(stage, "ldap_modify"))
              ELSE log
    /\ ldap_log' = IF r.mods # << >>
                   THEN Append(ldap_log,
                               Request(stage, "ldap_modify", enroll.computer_dn,
                                       r.mods, ret))
                   ELSE ldap_log
    /\ UNCHANGED password_log
    /\ Advance(stage, r.res, r.enroll)
    /\ UNCHANGED << flags, keytab_file, kt_index, which_salt,
                    prepare_results, trials, written, kt_before,
                    setter_calls, enroll_before, world, tools,
                    released, lifecycle, generator,
                    previous >>

SyncResults == { LDAP_SUCCESS, LDAP_INSUFFICIENT_ACCESS }

JoinEnctypes ==
    \E ret \in Answers("sync", SyncResults, { LDAP_SUCCESS }) :
        SyncStage("enctypes", update_and_calculate_enctypes(enroll, ret), ret)

JoinDnsHostName ==
    \E ret \in Answers("sync", SyncResults, { LDAP_SUCCESS }) :
        SyncStage("dnshost", update_dns_host_name(enroll, ret), ret)

JoinServicePrincipals ==
    \E ret \in Answers("sync", SyncResults, { LDAP_SUCCESS }) :
        SyncStage("spns", update_service_principals(enroll, ret), ret)

\* one round of the loop of update_keytab_for_principals
JoinKeytab ==
    /\ pc = "keytab"
    /\ \E outcome \in Answers("faults", { << TRUE, TRUE >>, << TRUE, FALSE >>,
                                           << FALSE, FALSE >> },
                                { << TRUE, TRUE >> }),
          ub \in UndefinedFor(enroll),
          accepts \in (IF NeedsDiscovery(which_salt)
                       THEN Answers("realm",
                           RealmResponses(adcli_enroll_get_keytab_enctypes(enroll)),
                           { AcceptsCandidate(
                                 adcli_enroll_get_keytab_enctypes(enroll), 0) })
                       ELSE { {} }) :
           LET cleared == outcome[1]
               added == outcome[2]
           IN
           LET principal == enroll.keytab_principals[kt_index + 1]
               r == add_principal_to_keytab(enroll, keytab_file, principal,
                                            which_salt, cleared, ub, accepts,
                                            added)
               more == r.res = ADCLI_SUCCESS
                       /\ kt_index + 1 < Len(enroll.keytab_principals)
           IN  /\ keytab_file' = r.keytab
               /\ which_salt' = r.which_salt
               /\ kt_index' = kt_index + 1
               /\ trials' = trials \o r.trials
               /\ written' = written \o r.added
               /\ log' = log
                         \o << Op("keytab", "kt_clear") >>
                         \o (IF r.probed THEN << Op("keytab", "discover_salt") >>
                             ELSE << >>)
                         \o (IF cleared /\ r.res \in { ADCLI_SUCCESS, ADCLI_ERR_FAIL }
                             THEN << Op("keytab", "kt_add") >> ELSE << >>)
               /\ IF more
                  THEN /\ pc' = "keytab"
                       /\ stage_log' = Append(stage_log,
                                           [stage |-> "keytab", res |-> r.res])
                       /\ UNCHANGED result
                  ELSE Advance("keytab", r.res, enroll)
               /\ UNCHANGED << enroll, flags, directory, prepare_results,
                               kt_before, setter_calls, enroll_before, ldap_log,
                               password_log, world, tools,
                               released, lifecycle, generator, previous >>

-----------------------------------------------------------------------------

Next ==
    \/ SetHostFqdn
    \/ SetComputerName
    \/ SetComputerDn
    \/ SetPreferredOu
    \/ SetServicePrincipals
    \/ SetKeytabEnctypes
    \/ SetKvno
    \/ JoinDiscover
    \/ JoinPrepare
    \/ JoinConnect
    \/ JoinPreferredOu
    \/ JoinContainer
    \/ JoinCalcAccount
    \/ JoinAccount
    \/ JoinPassword
    \/ JoinRetrieve
    \/ JoinEnctypes
    \/ JoinDnsHostName
    \/ JoinServicePrincipals
    \/ JoinKeytab
    \/ SetComputerPassword
    \/ ResetComputerPassword

Spec == Init /\ [][Next]_vars

\* joins run one after the other on the one context, in a world in which no
\* request fails
NextRejoin ==
    \/ Next
    \/ JoinAgain
    \/ SetPreferredOuAgain
    \/ SetComputerPasswordAgain
    \/ SetHostFqdnAgain

SpecRejoin == InitRejoin /\ [][NextRejoin]_vars

-----------------------------------------------------------------------------
(* The life of the context: adcli_enroll_new, _ref, _unref *)

\* the callers that hold the context set a password or not, and may call
\* prepare, before they let go of it
InitLifecycle == InitWorld({ { "password" } }) /\ InitTool

EnrollRef ==
    /\ pc = "idle"
    /\ refs < MaxRefs
    /\ refs' = adcli_enroll_ref(refs)
    /\ UNCHANGED << enroll, pc, flags, result, keytab_file, directory,
                    kt_index, which_salt, log, stage_log, prepare_results,
                    trials, written, kt_before, setter_calls, enroll_before,
                    ldap_log, password_log, world, tools, previous, released,
                    teardowns, conn_log, generator >>

\* adcli_enroll_unref, with enroll_free when it was the last reference
EnrollUnref ==
    /\ pc = "idle"
    /\ LET r == adcli_enroll_unref(refs)
       IN  /\ refs' = r.refs
           /\ IF r.freed
              THEN /\ teardowns' = teardowns + 1
                   /\ released' = released \o enroll_free_released(enroll)
                   /\ conn_log' = conn_log \o enroll_free_conn
                   /\ enroll' = enroll_clear_state(enroll)
                   /\ pc' = "freed"
              ELSE UNCHANGED << teardowns, released, conn_log, enroll, pc >>
    /\ UNCHANGED << flags, result, keytab_file, directory, kt_index,
                    which_salt, log, stage_log, prepare_results, trials,
                    written, kt_before, setter_calls, enroll_before,
                    ldap_log, password_log, world, tools, previous, generator >>

\* adcli_enroll_prepare called by the holder of the context, once
PrepareCall ==
    /\ pc = "idle"
    /\ prepare_results = << >>
    /\ \E ub \in UndefinedFor(enroll), generated \in GeneratedPasswords,
          asserts \in BOOLEAN :
           LET steps == PrepareSteps(enroll, { ADCLI_ENROLL_NO_KEYTAB }, ub,
                                     generated, TRUE, asserts)
           IN  /\ prepare_results' = [i \in DOMAIN steps |-> steps[i].res]
               /\ enroll' = steps[7].enroll
               /\ pc' = IF \E i \in DOMAIN steps : steps[i].res = ABORTED
                        THEN "aborted" ELSE "idle"
    /\ UNCHANGED << flags, result, keytab_file, directory, kt_index,
                    which_salt, log, stage_log, trials, written, kt_before,
                    setter_calls, enroll_before, ldap_log, password_log,
                    world, tools, previous, released, lifecycle, generator >>

\* adcli_enroll_prepare called once more on the context it has prepared
PrepareAgain ==
    /\ pc = "idle"
    /\ prepare_results # << >>
    /\ \E ub \in UndefinedFor(enroll), generated \in GeneratedPasswords,
          asserts \in BOOLEAN :
           LET steps == PrepareSteps(enroll, { ADCLI_ENROLL_NO_KEYTAB }, ub,
                                     generated, TRUE, asserts)
           IN  /\ prepare_results' = [i \in DOMAIN steps |-> steps[i].res]
               /\ enroll' = steps[7].enroll
               /\ pc' = IF \E i \in DOMAIN steps : steps[i].res = ABORTED
                        THEN "aborted" ELSE "prepared"
    /\ UNCHANGED << flags, result, keytab_file, directory, kt_index,
                    which_salt, log, stage_log, trials, written, kt_before,
                    setter_calls, enroll_before, ldap_log, password_log,
                    world, tools, previous, released, lifecycle, generator >>

NextLifecycle ==
    \/ SetHostFqdn
    \/ SetComputerPassword
    \/ ResetComputerPassword
    \/ PrepareCall
    \/ PrepareAgain
    \/ EnrollRef
    \/ EnrollUnref

SpecLifecycle == InitLifecycle /\ [][NextLifecycle]_vars

-----------------------------------------------------------------------------
(* generate_host_password, one round of its loop at a time *)

\* the octets krb5_c_random_make_octets may write: the limits of the range
\* kept and their neighbours outside it
OctetSamples == { 31, 32, 122, 123 }

\* what malloc hands out: never read before it is written
Uninitialized == -1

\* a new context, and generate_host_password entered with some length
InitGenerate ==
    /\ enroll = adcli_enroll_new
    /\ pc = "generate"
    /\ flags = {}
    /\ result = "none"
    /\ keytab_file = << >>
    /\ directory = {}
    /\ kt_index = 0
    /\ which_salt = -1
    /\ log = << >>
    /\ stage_log = << >>
    /\ prepare_results = << >>
    /\ trials = << >>
    /\ written = << >>
    /\ kt_before = << >>
    /\ setter_calls = 0
    /\ enroll_before = adcli_enroll_new
    /\ ldap_log = << >>
    /\ password_log = << >>
    /\ world = {}
    /\ previous = << >>
    /\ released = << >>
    /\ refs = 1
    /\ teardowns = 0
    /\ conn_log = << "adcli_conn_ref" >>
    /\ gen_length \in 1..MaxLength
    /\ gen_password = [i \in 1..(gen_length + 1) |-> Uninitialized]
    /\ gen_at = 0
    /\ gen_octets = << >>
    /\ gen_kept = 0
    /\ InitTool

\* the body of the loop with a request for length octets in every round
GenerateRound_requests_length ==
    /\ pc = "generate"
    /\ gen_at # gen_length
    /\ \E octets \in [1..gen_length -> OctetSamples] :
           LET f == filter_password_chars(octets, gen_length)
           IN  /\ gen_octets' = octets
               /\ gen_kept' = f.ret
               /\ gen_at' = gen_at + f.ret
               /\ gen_password' = SubSeq(gen_password, 1, gen_at)
                                  \o f.password
               /\ pc' = IF gen_at + f.ret <= gen_length THEN "generate"
                        ELSE "aborted"
    /\ UNCHANGED << enroll, flags, result, keytab_file, directory, kt_index,
                    which_salt, log, stage_log, prepare_results, trials,
                    written, kt_before, setter_calls, enroll_before,
                    ldap_log, password_log, world, tools, previous, released,
                    lifecycle, gen_length >>

\* the body of the loop: the random source fills the rest of the buffer,
\* the filter compacts it, at moves on by what the filter returned
GenerateRound ==
    /\ pc = "generate"
    /\ gen_at # gen_length
    /\ \E octets \in [1..(gen_length - gen_at) -> OctetSamples] :
           LET f == filter_password_chars(octets, gen_length - gen_at)
           IN  /\ gen_octets' = octets
               /\ gen_kept' = f.ret
               /\ gen_at' = gen_at + f.ret
               /\ gen_password' = SubSeq(gen_password, 1, gen_at)
                                  \o f.password
                                  \o << gen_password[gen_length + 1] >>
               /\ pc' = IF gen_at + f.ret <= gen_length THEN "generate"
                        ELSE "aborted"                     \* assert
    /\ UNCHANGED << enroll, flags, result, keytab_file, directory, kt_index,
                    which_salt, log, stage_log, prepare_results, trials,
                    written, kt_before, setter_calls, enroll_before,
                    ldap_log, password_log, world, tools, previous, released,
                    lifecycle, gen_length >>

\* the loop is left: the buffer is terminated and handed to
\* ensure_computer_password, which stores it in the context
GenerateReturn ==
    /\ pc = "generate"
    /\ gen_at = gen_length
    /\ gen_password' = [gen_password EXCEPT ![gen_length + 1] = 0]
    /\ enroll' = [enroll EXCEPT !.computer_password =
                      [i \in 1..gen_length |-> Chr(gen_password[i])]]
    /\ pc' = "generated"
    /\ UNCHANGED << flags, result, keytab_file, directory, kt_index,
                    which_salt, log, stage_log, prepare_results, trials,
                    written, kt_before, setter_calls, enroll_before,
                    ldap_log, password_log, world, tools, previous, released,
                    lifecycle, gen_length, gen_at, gen_octets, gen_kept >>

\* krb5_c_random_make_octets fails: generate_host_password hands back NULL
\* and ensure_computer_password returns ADCLI_ERR_UNEXPECTED
GenerateFail ==
    /\ pc = "generate"
    /\ gen_at # gen_length
    /\ pc' = "failed"
    /\ result' = ADCLI_ERR_UNEXPECTED
    /\ UNCHANGED << enroll, flags, keytab_file, directory, kt_index,
                    which_salt, log, stage_log, prepare_results, trials,
                    written, kt_before, setter_calls, enroll_before,
                    ldap_log, password_log, world, tools, previous, released,
                    lifecycle, generator >>

NextGenerate ==
    \/ GenerateRound
    \/ GenerateReturn
    \/ GenerateFail

SpecGenerate == InitGenerate /\ [][NextGenerate]_vars

\* a round in which the filter keeps at least one octet
ProductiveRound == GenerateRound /\ gen_at' > gen_at

\* the function runs on until it returns, and the random source does not
\* withhold octets of the range kept for ever
SpecGenerateFair ==
    /\ InitGenerate
    /\ [][NextGenerate]_vars
    /\ WF_vars(NextGenerate)
    /\ SF_vars(ProductiveRound)

-----------------------------------------------------------------------------
(* parse_option, called with one option after the other *)

\* the arguments the options come with
OptionArguments == { << "x" >>, << "y" >> }

\* the library is not in use while the tool parses its command line
InitNoEnroll ==
    /\ enroll = adcli_enroll_new
    /\ pc = "idle"
    /\ flags = {}
    /\ result = "none"
    /\ keytab_file = << >>
    /\ directory = {}
    /\ kt_index = 0
    /\ which_salt = -1
    /\ log = << >>
    /\ stage_log = << >>
    /\ prepare_results = << >>
    /\ trials = << >>
    /\ written = << >>
    /\ kt_before = << >>
    /\ setter_calls = 0
    /\ enroll_before = adcli_enroll_new
    /\ ldap_log = << >>
    /\ password_log = << >>
    /\ world = {}
    /\ previous = << >>
    /\ released = << >>
    /\ refs = 1
    /\ teardowns = 0
    /\ conn_log = << "adcli_conn_ref" >>
    /\ gen_length = 1
    /\ gen_password = [i \in 1..(gen_length + 1) |-> Uninitialized]
    /\ gen_at = 0
    /\ gen_octets = << >>
    /\ gen_kept = 0

\* a connection with some password callback, and parse_option not yet called
InitParseOption ==
    /\ InitNoEnroll
    /\ \E func \in PasswordFuncs :
           conn = [adcli_conn_new EXCEPT !.password_func = func]
    /\ statics = parse_option_statics
    /\ tool = [NoCommand EXCEPT !.pc = "options"]

ParseOption ==
    /\ tool.pc = "options"
    /\ tool.parsed < MaxOptions
    /\ \E opt \in Options, optarg \in OptionArguments :
           LET r == parse_option(opt, optarg, conn, statics)
           IN  /\ conn' = r.conn
               /\ statics' = r.statics
               /\ tool' = [tool EXCEPT !.opt = opt, !.ret = r.ret,
                                       !.parsed = @ + 1]
    /\ UNCHANGED << enroll, pc, flags, result, keytab_file, directory,
                    kt_index, which_salt, log, stage_log, prepare_results,
                    trials, written, kt_before, setter_calls, enroll_before,
                    ldap_log, password_log, world, previous, released,
                    lifecycle, generator >>

NextParseOption == ParseOption

SpecParseOption == InitParseOption /\ [][NextParseOption]_vars

-----------------------------------------------------------------------------
(* adcli_tool_member_add and adcli_tool_member_remove.  tool.argv holds the
   arguments that follow the options (the group first), tool.log the calls
   the command made on the connection and on the directory. *)

\* the group and the users a command line may name
GroupName == << "g" >>
UserNames == { << "u" >>, << "c", "$" >> }

\* the argument of the options of a member command
MemberOptionArgument == << "x" >>

RECURSIVE UserLists(_)
UserLists(n) ==
    IF n = 0 THEN { << >> }
    ELSE { << >> } \cup
         { << u >> \o rest : u \in UserNames, rest \in UserLists(n - 1) }

\* no argument at all, or a group and up to MaxMembers users
PositionalArguments ==
    { << >> } \cup { << GroupName >> \o users : users \in UserLists(MaxMembers) }

\* what adcli_conn_connect, adcli_entry_load and adcli_entry_modify answer
DirectoryResults == { ADCLI_SUCCESS, ADCLI_ERR_DIRECTORY, ADCLI_ERR_CREDENTIALS }

\* the DN the directory holds for a user
UserDn(user) == << "C", "N", "=" >> \o user

\* the options getopt answers with a usage text
UsageOptions == { "h", "?", ":" }

\* add-member or remove-member is called with some command line
InitMember ==
    /\ InitNoEnroll
    /\ conn = adcli_conn_new
    /\ statics = parse_option_statics
    /\ \E adding \in BOOLEAN, argv \in PositionalArguments :
           tool = [NoCommand EXCEPT !.pc = "options", !.adding = adding,
                                    !.argv = argv, !.argc = Len(argv)]

MemberUnchanged ==
    UNCHANGED << enroll, pc, flags, result, keytab_file, directory,
                 kt_index, which_salt, log, stage_log, prepare_results,
                 trials, written, kt_before, setter_calls, enroll_before,
                 ldap_log, password_log, world, previous, released,
                 lifecycle, generator >>

\* the command returns status
MemberReturn(t, status) == [t EXCEPT !.pc = "returned", !.status = status]

\* getopt hands out an option of the table, and parse_option takes it
MemberOption ==
    /\ tool.pc = "options"
    /\ tool.parsed < MaxOptions
    /\ \E opt \in Options :
           LET r == parse_option(opt, MemberOptionArgument, conn, statics)
               t == [tool EXCEPT !.parsed = @ + 1, !.ret = r.ret]
           IN  /\ conn' = r.conn
               /\ statics' = r.statics
               /\ tool' = IF r.ret # ResultCode(ADCLI_SUCCESS)
                          THEN MemberReturn(t, r.ret)
                          ELSE t
    /\ MemberUnchanged

\* --help, an option getopt does not know, or one that lacks its argument
MemberUsage ==
    /\ tool.pc = "options"
    /\ \E opt \in UsageOptions :
           tool' = MemberReturn([tool EXCEPT !.opt = opt],
                                IF opt = "h" THEN 0 ELSE 2)
    /\ UNCHANGED << conn, statics >>
    /\ MemberUnchanged

\* the options are through: the arguments are counted and the group entry
\* is made
MemberArguments ==
    /\ tool.pc = "options"
    /\ \E allocated \in BOOLEAN :
           IF tool.argc < 2
           THEN /\ tool' = MemberReturn(tool, 2)
                /\ conn' = conn
           ELSE IF ~allocated
           THEN /\ tool' = MemberReturn(tool, -1)
                /\ conn' = conn
           ELSE /\ tool' = [tool EXCEPT !.pc = "connect"]
                /\ conn' = [conn EXCEPT !.allowed_login_types =
                                            { ADCLI_LOGIN_USER_ACCOUNT }]
    /\ UNCHANGED statics
    /\ MemberUnchanged

MemberConnect ==
    /\ tool.pc = "connect"
    /\ \E res \in DirectoryResults :
           LET t == [tool EXCEPT !.log = Append(@,
                        [call |-> "adcli_conn_connect", res |-> res,
                         user |-> NULL, dn |-> NULL, attrs |-> << >>])]
           IN  tool' = IF res # ADCLI_SUCCESS
                       THEN MemberReturn(t, -ResultCode(res))
                       ELSE [t EXCEPT !.pc = "expand", !.i = 1,
                                      !.attrs = << >>]
    /\ UNCHANGED << conn, statics >>
    /\ MemberUnchanged

\* one round of the loop over the users
MemberExpand ==
    /\ tool.pc = "expand"
    /\ tool.i < tool.argc
    /\ LET user == tool.argv[tool.i + 1]
       IN  \E res \in DirectoryResults, found \in BOOLEAN :
               LET dn == IF res = ADCLI_SUCCESS /\ found
                         THEN UserDn(user) ELSE NULL
                   r == expand_user_dn_as_member(tool.attrs, user,
                                                 tool.adding, res, dn)
                   t == [tool EXCEPT !.ret = r.ret, !.log = Append(@,
                            [call |-> "adcli_entry_load", res |-> res,
                             user |-> user, dn |-> dn, attrs |-> << >>])]
               IN  tool' = IF r.ret # ResultCode(ADCLI_SUCCESS)
                           THEN MemberReturn([t EXCEPT !.attrs = << >>],
                                             r.ret)
                           ELSE [t EXCEPT !.attrs = r.attrs, !.i = @ + 1]
    /\ UNCHANGED << conn, statics >>
    /\ MemberUnchanged

\* the loop is through and the group is modified
MemberModify ==
    /\ tool.pc = "expand"
    /\ tool.i >= tool.argc
    /\ \E res \in DirectoryResults :
           LET t == [tool EXCEPT !.attrs = << >>, !.log = Append(@,
                        [call |-> "adcli_entry_modify", res |-> res,
                         user |-> NULL, dn |-> NULL, attrs |-> tool.attrs])]
           IN  tool' = MemberReturn(t, IF res # ADCLI_SUCCESS
                                       THEN -ResultCode(res) ELSE 0)
    /\ UNCHANGED << conn, statics >>
    /\ MemberUnchanged

NextMember ==
    \/ MemberOption
    \/ MemberUsage
    \/ MemberArguments
    \/ MemberConnect
    \/ MemberExpand
    \/ MemberModify

SpecMember == InitMember /\ [][NextMember]_vars

-----------------------------------------------------------------------------
(* Properties of the join.  What the join did is read from the histories: *)
(* log (the operations issued), stage_log (the result of each stage),     *)
(* trials, written and kt_before.                                         *)

JoinReturned == pc = "done"

JoinSucceeded == pc = "done" /\ result = ADCLI_SUCCESS

\* the stage ran and handed back success
StageSucceeded(stage) ==
    \E i \in DOMAIN stage_log :
        stage_log[i] = [stage |-> stage, res |-> ADCLI_SUCCESS]

\* the operation was issued before the i-th operation of the log
IssuedBefore(op, i) == \E j \in 1..(i - 1) : log[j] = op

KeytabChanges == { "kt_clear", "kt_add" }

\* C1: no keytab entry is removed or written before the password set has
\* returned success; every keytab write comes after the read-back that
\* stores kvno; the read-back comes only after the successful password set.
C1_KeytabAfterPasswordAndReadBack ==
    /\ \A i \in DOMAIN log :
           log[i].op \in KeytabChanges =>
               /\ IssuedBefore(Op("password", "kpasswd"), i)
               /\ StageSucceeded("password")
               /\ IssuedBefore(Op("retrieve", "ldap_search"), i)
               /\ StageSucceeded("retrieve")
    /\ \A i \in DOMAIN log :
           log[i] = Op("retrieve", "ldap_search") =>
               /\ IssuedBefore(Op("password", "kpasswd"), i)
               /\ StageSucceeded("password")
    /\ (keytab_file # kt_before \/ written # << >>) =>
           StageSucceeded("password") /\ StageSucceeded("retrieve")

\* a join that removed stale entries and wrote new ones, and succeeded
C1_Witness ==
    /\ JoinSucceeded
    /\ written # << >>
    /\ Len(keytab_file) < Len(kt_before) + Len(written)
    /\ \E i \in DOMAIN log : log[i] = Op("keytab", "kt_add")

-----------------------------------------------------------------------------

\* the stages whose failure ends the join
HardStages ==
    { "discover", "prepare", "connect", "ou", "container", "calc", "account",
      "password", "retrieve" }

Failures ==
    { ADCLI_ERR_UNEXPECTED, ADCLI_ERR_FAIL, ADCLI_ERR_DIRECTORY,
      ADCLI_ERR_CONFIG, ADCLI_ERR_CREDENTIALS }

\* the position of a stage in the order the join runs them
StageOrder ==
    << "discover", "prepare", "connect", "ou", "container", "calc", "account",
       "password", "retrieve", "enctypes", "dnshost", "spns", "keytab" >>

StagePosition(stage) == CHOOSE i \in DOMAIN StageOrder : StageOrder[i] = stage

\* C6: when a hard stage of the join hands back a failure, the join returns
\* exactly that result and issues no operation of any later stage: no later
\* LDAP add, modify or search, no kpasswd call, no keytab change.
C6_HardFailureEndsJoin ==
    \A i \in DOMAIN stage_log :
        (stage_log[i].stage \in HardStages /\ stage_log[i].res \in Failures) =>
            /\ i = Len(stage_log)
            /\ JoinReturned
            /\ result = stage_log[i].res
            /\ \A k \in DOMAIN log :
                   StagePosition(log[k].stage) <= StagePosition(stage_log[i].stage)
            /\ (StagePosition(stage_log[i].stage) <= StagePosition("password")
                    => \A o \in directory : o.kvno \in { 1, ExistingKvno })
            /\ keytab_file = kt_before
            /\ written = << >>

\* the password set failed after the account was created: the join returned
\* the failure of the password set
C6_Witness ==
    /\ JoinReturned
    /\ result = ADCLI_ERR_CREDENTIALS
    /\ stage_log[Len(stage_log)] =
           [stage |-> "password", res |-> ADCLI_ERR_CREDENTIALS]
    /\ \E k \in DOMAIN log : log[k] = Op("account", "ldap_add")

-----------------------------------------------------------------------------
(* Properties of the keytab writer *)

\* the principals the join writes keys for
KeytabPrincipals ==
    { enroll.keytab_principals[i] : i \in DOMAIN enroll.keytab_principals }

\* the positions of the keytab file holding an entry of principal at vno
EntriesAt(principal, vno) ==
    { i \in DOMAIN keytab_file :
          keytab_file[i].principal = principal /\ keytab_file[i].vno = vno }

\* how often the enctype occurs in the list
Occurrences(enctypes, t) ==
    Cardinality({ k \in DOMAIN enctypes : enctypes[k] = t })

EnabledEnctypes ==
    { adcli_enroll_get_keytab_enctypes(enroll)[k] :
          k \in DOMAIN adcli_enroll_get_keytab_enctypes(enroll) }

AllEnctypes == { default_enctypes[k] : k \in DOMAIN default_enctypes }

\* no entry of a principal of the context at a version other than kvno and
\* kvno - 1
OnlyLiveAndPreviousVersions ==
    \A i \in DOMAIN keytab_file :
        keytab_file[i].principal \in KeytabPrincipals =>
            keytab_file[i].vno \in { enroll.kvno, enroll.kvno - 1 }

\* C2 as stated: after any join that returns success the keytab holds, for
\* every principal of the context, exactly one entry per enabled enctype at
\* kvno, and no entry of the principal at a version other than kvno and
\* kvno - 1.
C2_AsStated ==
    JoinSucceeded =>
        /\ \A P \in KeytabPrincipals : \A t \in EnabledEnctypes :
               Cardinality({ i \in EntriesAt(P, enroll.kvno) :
                                 keytab_file[i].enctype = t }) = 1
        /\ OnlyLiveAndPreviousVersions

\* C2, amended: after any join without NO_KEYTAB that returns success the
\* keytab holds, for every principal of the context, exactly one entry at
\* kvno per element of the enabled enctype list (one per enctype when the
\* list names no enctype twice) and none of any other enctype, and no entry
\* of the principal at a version other than kvno and kvno - 1.
C2_KeytabAfterJoin ==
    (JoinSucceeded /\ ADCLI_ENROLL_NO_KEYTAB \notin flags) =>
        /\ \A P \in KeytabPrincipals : \A t \in AllEnctypes :
               Cardinality({ i \in EntriesAt(P, enroll.kvno) :
                                 keytab_file[i].enctype = t })
                   = Occurrences(adcli_enroll_get_keytab_enctypes(enroll), t)
        /\ OnlyLiveAndPreviousVersions

\* a successful join with a keytab that held, for a principal of the context,
\* entries at kvno - 1 and at an older version, and that wrote for more than
\* one principal
C2_Witness ==
    /\ JoinSucceeded
    /\ ADCLI_ENROLL_NO_KEYTAB \notin flags
    /\ Cardinality(KeytabPrincipals) > 1
    /\ \E i, j \in DOMAIN kt_before :
           /\ kt_before[i].principal \in KeytabPrincipals
           /\ kt_before[i].vno = enroll.kvno - 1
           /\ kt_before[j].principal = kt_before[i].principal
           /\ kt_before[j].vno < enroll.kvno - 1

-----------------------------------------------------------------------------

\* C3: every keytab entry the join wrote for a principal P is derived with a
\* salt the realm accepted in a trial AS-REQ for that same principal P.
C3_SaltAcceptedForSamePrincipal ==
    \A i \in DOMAIN written :
        \E k \in DOMAIN trials :
            /\ trials[k].accepted
            /\ trials[k].principal = written[i].principal
            /\ trials[k].salt = written[i].key.salt

-----------------------------------------------------------------------------

\* the msDS-KeyVersionNumber value the read-back found, NULL if none
ReadBackKvno ==
    adcli_ldap_parse_value(enroll.computer_attributes, "msDS-KeyVersionNumber")

\* C8 as stated: after a join that returns success kvno is strictly positive
\* and is the version of the keytab entries the join wrote.
C8_AsStated ==
    JoinSucceeded =>
        /\ enroll.kvno > 0
        /\ \A i \in DOMAIN written : written[i].vno = enroll.kvno

\* C8, amended: after a join that returns success kvno is the
\* msDS-KeyVersionNumber read back from the account, or zero when the account
\* carries none (so it is not always strictly positive), and is the version
\* of the keytab entries the join wrote.
C8_KvnoIsVersionWritten ==
    JoinSucceeded =>
        /\ enroll.kvno >= 0
        /\ enroll.kvno = IF ReadBackKvno = NULL THEN 0
                         ELSE strtoul(ReadBackKvno).value
        /\ \A i \in DOMAIN written : written[i].vno = enroll.kvno

\* a successful join that wrote entries for an account without the attribute
C8_Witness ==
    /\ JoinSucceeded
    /\ written # << >>
    /\ ReadBackKvno = NULL
    /\ enroll.kvno = 0

-----------------------------------------------------------------------------

\* the entries the clearing step for principal with the new version kvno is
\* to leave: those of other principals and those one version behind
LeftByClearing(kt, principal, kvno) ==
    SelectSeq(kt, LAMBDA entry :
        ~(entry.principal = principal /\ entry.vno + 1 # kvno))

\* C9: the clearing step for principal P with the new version kvno removes
\* exactly the entries whose principal is P and whose vno + 1 # kvno; it
\* leaves every entry of P with vno = kvno - 1 and every entry of any other
\* principal.  Stated of each round of the keytab loop whose clearing scan
\* went through: the file afterwards is what clearing is to leave, followed
\* by the entries the round added.
C9_ClearingRemovesExactlyStale ==
    [][ (pc = "keytab"
         /\ ~(/\ stage_log'[Len(stage_log')].res = ADCLI_ERR_FAIL
              /\ Len(log') = Len(log) + 1))
        => keytab_file' =
               LeftByClearing(keytab_file,
                              enroll.keytab_principals[kt_index + 1],
                              enroll.kvno)
               \o SubSeq(written', Len(written) + 1, Len(written')) ]_vars

\* a join under which clearing removed a stale entry of a principal, left
\* that principal's entry one version behind, and left another principal's
\* entries at every version
C9_Witness ==
    /\ JoinSucceeded
    /\ written # << >>
    /\ \E P \in KeytabPrincipals :
           /\ \E i \in DOMAIN kt_before :
                  /\ kt_before[i].principal = P
                  /\ kt_before[i].vno + 1 # enroll.kvno
                  /\ \A j \in DOMAIN keytab_file : keytab_file[j] # kt_before[i]
           /\ \E i \in DOMAIN kt_before :
                  /\ kt_before[i].principal = P
                  /\ kt_before[i].vno + 1 = enroll.kvno
                  /\ \E j \in DOMAIN keytab_file : keytab_file[j] = kt_before[i]
    /\ \A v \in 1..MaxOldVno :
           \E j \in DOMAIN keytab_file :
               /\ keytab_file[j].principal \notin KeytabPrincipals
               /\ keytab_file[j].vno = v

-----------------------------------------------------------------------------

\* the positions of the log at which salt discovery was run
Discoveries == { i \in DOMAIN log : log[i].op = "discover_salt" }

SaltAccepted == \E k \in DOMAIN trials : trials[k].accepted

\* C10: within one join salt discovery is run at most once, for the first
\* principal (the computer principal); the candidate selected is used for
\* every later principal and enctype without further probing; when no
\* candidate is accepted the join returns DIRECTORY and has written no entry.
C10_SaltDiscoveredOnce ==
    /\ Cardinality(Discoveries) <= 1
    /\ \A i \in Discoveries :
           Cardinality({ j \in 1..i : log[j].op = "kt_clear" }) = 1
    /\ \A k \in DOMAIN trials :
           /\ trials[k].principal = enroll.keytab_principals[1]
           /\ trials[k].principal = enroll.computer_principal
           /\ trials[k].accepted => k = Len(trials)
    /\ written # << >> =>
           /\ SaltAccepted
           /\ which_salt = trials[Len(trials)].which
           /\ \A P \in KeytabPrincipals :
                  LET salt == build_principal_salts(enroll, P)[which_salt + 1]
                  IN  \A i \in DOMAIN written :
                          written[i].principal = P =>
                              written[i].key.salt = salt
           /\ \A i \in DOMAIN written :
                  written[i].principal \in KeytabPrincipals
    /\ (JoinReturned /\ Discoveries # {} /\ ~SaltAccepted) =>
           /\ result = ADCLI_ERR_DIRECTORY
           /\ written = << >>

\* a successful join that probed once, had its first candidate rejected, and
\* wrote entries for the computer principal and for a service principal
C10_Witness ==
    /\ JoinSucceeded
    /\ Cardinality(Discoveries) = 1
    /\ Len(trials) > 1
    /\ which_salt > 0
    /\ \E i, j \in DOMAIN written :
           written[i].principal # written[j].principal

-----------------------------------------------------------------------------
(* Properties of prepare *)

PrepareRan == prepare_results # << >>

PrepareSucceeded == PrepareRan /\ prepare_results[7] = ADCLI_SUCCESS

\* no dot strictly inside the name: no dot at all, or only a leading or a
\* trailing one
NoInteriorDot(fqdn) == \A i \in 2..(Len(fqdn) - 1) : fqdn[i] # "."

\* C4: when no computer name is set and host_fqdn has no interior dot, or
\* there is no host_fqdn at all, prepare, and so the join, returns CONFIG.
C4_BadFqdnIsConfig ==
    (/\ PrepareRan
     /\ enroll.computer_name = NULL
     /\ (enroll.host_fqdn = NULL \/ NoInteriorDot(enroll.host_fqdn))) =>
        /\ prepare_results[7] = ADCLI_ERR_CONFIG
        /\ pc \in { "done", "aborted" }
        /\ result = ADCLI_ERR_CONFIG

-----------------------------------------------------------------------------

\* C5: every stage helper of prepare, handed a running result that is
\* already a failure, hands back that result and leaves every field of the
\* context as it was; so prepare returns the result of its first failing
\* stage.  Stated of the context prepare is about to run on: of each helper
\* called with each failure, and of each helper in the pipeline itself.
C5_HelpersPassFailureOn ==
    pc = "prepare" =>
        \A ub \in UndefinedFor(enroll), generated \in GeneratedPasswords,
           opened \in BOOLEAN, asserts \in BOOLEAN :
            /\ \A res \in Failures :
                   /\ ensure_host_fqdn(res, enroll) = Ret(res, enroll)
                   /\ ensure_computer_name(res, enroll) = Ret(res, enroll)
                   /\ ensure_computer_sam(res, enroll, ub) = Ret(res, enroll)
                   /\ ensure_computer_password(res, enroll, generated)
                          = Ret(res, enroll)
                   /\ ensure_host_keytab(res, enroll, opened)
                          = Ret(res, enroll)
                   /\ ensure_service_names(res, enroll) = Ret(res, enroll)
                   /\ ensure_service_principals(res, enroll, ub, asserts)
                          = Ret(res, enroll)
            /\ LET steps == PrepareSteps(enroll, flags, ub, generated, opened,
                                         asserts)
               IN  \A i \in 2..7 :
                       steps[i - 1].res \in Failures => steps[i] = steps[i - 1]

-----------------------------------------------------------------------------

-----------------------------------------------------------------------------
(* Properties of salt discovery *)

\* the salts of the computer principal in the order the claim gives them:
\* canonical Kerberos salt, Windows 2003 machine salt, empty salt
CandidateOrder ==
    << krb5_principal2salt(enroll.computer_principal),
       adcli_krb5_w2k3_salt(enroll.computer_principal,
                            FormatS(enroll.computer_name)),
       NULL >>

\* the trials made with the candidate i
TrialsOf(i) == { k \in DOMAIN trials : trials[k].which = i }

\* C11: the salt candidates are tried in the order canonical salt, Windows
\* 2003 salt, empty salt; the candidate selected is the first in that order
\* that the realm accepts for an enabled enctype: every candidate before it
\* was tried and rejected with every enabled enctype, and it is the one the
\* entries are written with.  When the Windows 2003 salt is selected, every
\* entry written carries that one salt.
C11_SaltCandidatesInOrder ==
    /\ \A k \in DOMAIN trials :
           /\ trials[k].which \in 0..2
           /\ trials[k].salt = CandidateOrder[trials[k].which + 1]
           /\ trials[k].enctype \in EnabledEnctypes
           /\ k > 1 => trials[k - 1].which <= trials[k].which
           /\ k < Len(trials) => ~trials[k].accepted
    /\ trials # << >> => trials[1].which = 0
    /\ SaltAccepted =>
           /\ which_salt = trials[Len(trials)].which
           /\ \A i \in 0..(which_salt - 1) : \A t \in EnabledEnctypes :
                  \E k \in TrialsOf(i) :
                      trials[k].enctype = t /\ ~trials[k].accepted
           /\ \A i \in DOMAIN written :
                  written[i].principal = enroll.computer_principal =>
                      written[i].key.salt = CandidateOrder[which_salt + 1]
           /\ which_salt = 1 =>
                  \A i \in DOMAIN written :
                      written[i].key.salt = CandidateOrder[2]

\* a join against a realm that rejects the canonical salt with every
\* enctype and the Windows 2003 salt with the first: the Windows 2003 salt
\* was selected on its last enctype and used for more than one principal
C11_Witness ==
    /\ JoinSucceeded
    /\ which_salt = 1
    /\ Cardinality(TrialsOf(0)) > 1
    /\ Cardinality(TrialsOf(1)) > 1
    /\ trials[Len(trials)].accepted
    /\ \E i, j \in DOMAIN written :
           written[i].principal # written[j].principal

-----------------------------------------------------------------------------
(* Properties of the account reconciler *)

\* the requests the account reconciler made, in order
AccountRequests == SelectSeq(ldap_log, LAMBDA r : r.stage = "account")

\* the account search of this join found the account
AccountFound ==
    \E i \in DOMAIN ldap_log :
        /\ ldap_log[i].stage = "account"
        /\ ldap_log[i].op = "ldap_search"
        /\ ldap_log[i].ret = LDAP_SUCCESS

AccountRan == \E i \in DOMAIN stage_log : stage_log[i].stage = "account"

\* the result the account reconciler handed back
AccountResult ==
    stage_log[CHOOSE i \in DOMAIN stage_log : stage_log[i].stage = "account"].res

LdapWrites == { "ldap_add", "ldap_modify" }

\* C12: when the computer account already exists and ALLOW_OVERWRITE is not
\* set, the join returns CONFIG and issues no LDAP add, no LDAP modify, no
\* password set and no keytab change.
C12_OverwriteGuard ==
    (AccountFound /\ ADCLI_ENROLL_ALLOW_OVERWRITE \notin flags) =>
        /\ JoinReturned
        /\ result = ADCLI_ERR_CONFIG
        /\ stage_log[Len(stage_log)] =
               [stage |-> "account", res |-> ADCLI_ERR_CONFIG]
        /\ \A i \in DOMAIN ldap_log : ldap_log[i].op \notin LdapWrites
        /\ \A i \in DOMAIN log :
               log[i].op \notin LdapWrites \cup { "kpasswd" } \cup KeytabChanges
        /\ password_log = << >>
        /\ keytab_file = kt_before
        /\ written = << >>
        /\ \A o \in directory : o.kvno = ExistingKvno

\* a join without ALLOW_OVERWRITE that found the account and returned
C12_Witness ==
    /\ AccountFound
    /\ ADCLI_ENROLL_ALLOW_OVERWRITE \notin flags
    /\ ADCLI_ENROLL_NO_KEYTAB \notin flags
    /\ JoinReturned

-----------------------------------------------------------------------------

\* the three attributes of a computer account and the value the join wants
\* each to have, in the order of the claim
DesiredAttributes ==
    << [attr |-> "objectClass", value |-> ObjectClassComputer],
       [attr |-> "sAMAccountName", value |-> enroll.computer_sam],
       [attr |-> "userAccountControl", value |-> << "6", "9", "6", "3", "2" >>] >>

\* the account found does not hold the desired value of the attribute
Differs(entry, desired) ==
    \A o \in entry : desired.value \notin o.attrs[desired.attr]

\* the adds and modifies among the LDAP requests
WritesOf(requests) == SelectSeq(requests, LAMBDA r : r.op \in LdapWrites)

\* C13: when the account exists and ALLOW_OVERWRITE is set, the reconciler
\* issues an LDAP modify if and only if at least one of objectClass,
\* sAMAccountName, userAccountControl does not hold the desired value, and
\* the modify carries exactly those attributes, in their original order,
\* with REPLACE; when none differs no modify is issued and the stage
\* succeeds.  Stated of every step of the account stage that finds the
\* account.
C13_ModifyExactlyDiffering ==
    [][ (/\ pc = "account"
         /\ ADCLI_ENROLL_ALLOW_OVERWRITE \in flags
         /\ AccountFound')
        => LET entry == Lookup(directory, enroll.computer_dn)
               differing == SelectSeq(DesiredAttributes,
                                      LAMBDA d : Differs(entry, d))
               writes == WritesOf(ldap_log')
           IN  /\ entry # {}
               /\ differing = << >> =>
                      /\ writes = << >>
                      /\ AccountResult' = ADCLI_SUCCESS
                      /\ directory' = directory
               /\ differing # << >> =>
                      /\ Len(writes) = 1
                      /\ writes[1].op = "ldap_modify"
                      /\ writes[1].dn = enroll.computer_dn
                      /\ writes[1].mods =
                             [i \in DOMAIN differing |->
                                 [mod_op |-> LDAP_MOD_REPLACE,
                                  mod_type |-> differing[i].attr,
                                  vals |-> { differing[i].value }]] ]_vars

\* the account was found with another sAMAccountName and userAccountControl
\* and with the objectClass wanted: the modify carried the two, and went
\* through
C13_Witness ==
    /\ ADCLI_ENROLL_ALLOW_OVERWRITE \in flags
    /\ AccountFound
    /\ \E i \in DOMAIN ldap_log :
           /\ ldap_log[i].op = "ldap_modify"
           /\ ldap_log[i].stage = "account"
           /\ ldap_log[i].ret = LDAP_SUCCESS
           /\ Len(ldap_log[i].mods) = 2
           /\ ldap_log[i].mods[1].mod_type = "sAMAccountName"
           /\ ldap_log[i].mods[2].mod_type = "userAccountControl"

-----------------------------------------------------------------------------

\* the mods of an add of the three attributes with the values wanted
AddOfThree ==
    [i \in DOMAIN DesiredAttributes |->
        [mod_op |-> LDAP_MOD_ADD,
         mod_type |-> DesiredAttributes[i].attr,
         vals |-> { DesiredAttributes[i].value }]]

\* C14: the result of the account reconciler follows from the answers of
\* the directory: a NO_SUCH_OBJECT read leads to an LDAP add of the three
\* attributes; any other read error returns DIRECTORY; an add refused with
\* INSUFFICIENT_ACCESS or OBJECT_CLASS_VIOLATION returns CREDENTIALS; a
\* modify refused with INSUFFICIENT_ACCESS returns CREDENTIALS; every other
\* add or modify error returns DIRECTORY, OBJECT_CLASS_VIOLATION on modify
\* included.
C14_ReconcilerResultMapping ==
    AccountRan =>
        LET reqs == AccountRequests
            read == reqs[1]
            writes == WritesOf(reqs)
        IN  /\ read.op = "ldap_search"
            /\ Len(writes) = Len(reqs) - 1
            /\ Len(writes) <= 1
            /\ read.ret = LDAP_NO_SUCH_OBJECT =>
                   /\ Len(writes) = 1
                   /\ writes[1].op = "ldap_add"
                   /\ writes[1].dn = read.dn
                   /\ writes[1].mods = AddOfThree
            /\ read.ret \notin { LDAP_SUCCESS, LDAP_NO_SUCH_OBJECT } =>
                   /\ writes = << >>
                   /\ AccountResult = ADCLI_ERR_DIRECTORY
            /\ \A i \in DOMAIN writes :
                   LET w == writes[i]
                       refused ==
                           \/ w.ret = LDAP_INSUFFICIENT_ACCESS
                           \/ /\ w.op = "ldap_add"
                              /\ w.ret = LDAP_OBJECT_CLASS_VIOLATION
                   IN  /\ refused => AccountResult = ADCLI_ERR_CREDENTIALS
                       /\ (~refused /\ w.ret # LDAP_SUCCESS) =>
                              AccountResult = ADCLI_ERR_DIRECTORY

\* a modify answered with OBJECT_CLASS_VIOLATION: the join returned DIRECTORY
C14_Witness ==
    /\ JoinReturned
    /\ result = ADCLI_ERR_DIRECTORY
    /\ AccountRan
    /\ \E i \in DOMAIN ldap_log :
           /\ ldap_log[i].stage = "account"
           /\ ldap_log[i].op = "ldap_modify"
           /\ ldap_log[i].ret = LDAP_OBJECT_CLASS_VIOLATION

-----------------------------------------------------------------------------
(* Properties of the password setter *)

PasswordRan == \E i \in DOMAIN stage_log : stage_log[i].stage = "password"

\* the result the password setter handed back
PasswordResult ==
    stage_log[CHOOSE i \in DOMAIN stage_log : stage_log[i].stage = "password"].res

\* the transport failed: no kadmin/changepw ticket, or the call's own error
TransportError(c) == c.ticket = "failed" \/ c.code # 0

\* C15: the password setter uses change-password with the computer's own
\* credentials exactly when the login type is COMPUTER_ACCOUNT and
\* set-password with the admin credential cache otherwise; in both a
\* transport error (failure to get the kadmin/changepw ticket included)
\* returns DIRECTORY, a non-zero protocol result code returns CREDENTIALS,
\* and only a zero protocol code with no transport error returns success.
C15_PasswordSetterStrategy ==
    PasswordRan =>
        /\ Len(password_log) = 1
        /\ LET c == password_log[1] IN
            /\ c.login_type = ADCLI_LOGIN_COMPUTER_ACCOUNT =>
                   /\ c.ticket \in { "ok", "failed" }
                   /\ c.ticket = "ok" <=> c.call = "krb5_change_password"
                   /\ c.ticket = "failed" <=> c.call = "none"
            /\ c.login_type # ADCLI_LOGIN_COMPUTER_ACCOUNT =>
                   /\ c.ticket = "none"
                   /\ c.call = "krb5_set_password_using_ccache"
            /\ TransportError(c) => PasswordResult = ADCLI_ERR_DIRECTORY
            /\ (~TransportError(c) /\ c.result_code # 0) =>
                   PasswordResult = ADCLI_ERR_CREDENTIALS
            /\ PasswordResult = ADCLI_SUCCESS <=>
                   (~TransportError(c) /\ c.result_code = 0)

\* a join logged in as the computer account whose kadmin/changepw ticket
\* could not be had: it returned DIRECTORY without a password call
C15_Witness ==
    /\ JoinReturned
    /\ result = ADCLI_ERR_DIRECTORY
    /\ PasswordRan
    /\ password_log[1].login_type = ADCLI_LOGIN_COMPUTER_ACCOUNT
    /\ password_log[1].ticket = "failed"

-----------------------------------------------------------------------------
(* Properties of the attribute synchronizer *)

StageRan(stage) == \E i \in DOMAIN stage_log : stage_log[i].stage = stage

\* the writes of the synchronizer that the directory refused
FailedSyncWrites ==
    { i \in DOMAIN ldap_log :
        /\ ldap_log[i].stage \in SoftStages
        /\ ldap_log[i].op = "ldap_modify"
        /\ ldap_log[i].ret # LDAP_SUCCESS }

\* the synchronizer steps after the given one, and the keytab stage unless
\* the join was told to leave the keytab alone
StagesAfter(stage) ==
    { JoinStages[k] : k \in (StageIndex(stage) + 1) .. Len(JoinStages) }
    \ (IF ADCLI_ENROLL_NO_KEYTAB \in flags THEN { "keytab" } ELSE {})

\* C16: a failed write of msDS-supportedEncryptionTypes, dNSHostName or
\* servicePrincipalName during attribute synchronisation (INSUFFICIENT_ACCESS
\* included) does not change the result of the join: the remaining
\* synchronizer steps and the keytab stage still run, and the result of the
\* join is that of the keytab stage, or success under NO_KEYTAB.
C16_SyncFailuresAreSoft ==
    \A i \in FailedSyncWrites :
        /\ pc \in StagesAfter(ldap_log[i].stage) \cup { "done", "aborted" }
        /\ pc # ldap_log[i].stage
        /\ JoinReturned =>
               /\ \A stage \in StagesAfter(ldap_log[i].stage) : StageRan(stage)
               /\ IF ADCLI_ENROLL_NO_KEYTAB \in flags
                  THEN /\ result = ADCLI_SUCCESS
                       /\ ~StageRan("keytab")
                  ELSE /\ stage_log[Len(stage_log)].stage = "keytab"
                       /\ result = stage_log[Len(stage_log)].res

\* the directory refused the write of dNSHostName with INSUFFICIENT_ACCESS
\* and the join went on to write the keytab and returned success
C16_Witness ==
    /\ JoinSucceeded
    /\ ADCLI_ENROLL_NO_KEYTAB \notin flags
    /\ written # << >>
    /\ \E i \in FailedSyncWrites :
           /\ ldap_log[i].stage = "dnshost"
           /\ ldap_log[i].ret = LDAP_INSUFFICIENT_ACCESS

-----------------------------------------------------------------------------

\* the synchronizer could not encode the effective enctype list
EncodeFailed ==
    \E i \in DOMAIN stage_log :
        stage_log[i] = [stage |-> "enctypes", res |-> ADCLI_ERR_CONFIG]

\* C17: when the effective enctype list cannot be encoded for the directory
\* during attribute synchronisation, the join fails with CONFIG and the
\* keytab stage does not run.
C17_EncodeFailureFailsJoin ==
    EncodeFailed =>
        /\ ~StageRan("keytab")
        /\ JoinReturned => result = ADCLI_ERR_CONFIG

-----------------------------------------------------------------------------

\* C18: when the caller has set computer_dn before calling join, that join
\* uses the caller's DN for the account read, the add or modify and the
\* read-back, and skips OU validation and lookup, container lookup and DN
\* calculation.
C18_PresetComputerDnIsUsed ==
    (stage_log # << >> /\ enroll_before.computer_dn # NULL) =>
        /\ \A i \in DOMAIN ldap_log :
               ldap_log[i].stage \in { "account", "retrieve" } =>
                   ldap_log[i].dn = enroll_before.computer_dn
        /\ ~StageRan("ou")
        /\ ~StageRan("container")
        /\ ~StageRan("calc")

-----------------------------------------------------------------------------

KeytabOps == { "kt_open", "kt_clear", "kt_add", "discover_salt" }

\* C19: with the NO_KEYTAB flag, prepare does not open a keytab and the join
\* never opens, clears or writes the keytab: the keytab contents after the
\* join equal its contents before, and the join returns success directly
\* after attribute synchronisation.
C19_NoKeytabLeavesKeytabAlone ==
    (stage_log # << >> /\ ADCLI_ENROLL_NO_KEYTAB \in flags) =>
        /\ \A i \in DOMAIN log : log[i].op \notin KeytabOps
        /\ ~enroll.keytab
        /\ keytab_file = kt_before
        /\ written = << >>
        /\ trials = << >>
        /\ pc # "keytab"
        /\ ~StageRan("keytab")
        /\ StageRan("spns") =>
               /\ JoinSucceeded
               /\ stage_log[Len(stage_log)].stage = "spns"
        /\ JoinSucceeded => stage_log[Len(stage_log)].stage = "spns"

\* a NO_KEYTAB join that set the password and returned success, over a
\* keytab file that holds entries
C19_Witness ==
    /\ ADCLI_ENROLL_NO_KEYTAB \in flags
    /\ JoinSucceeded
    /\ StageSucceeded("password")
    /\ kt_before # << >>
    /\ keytab_file = kt_before

-----------------------------------------------------------------------------
(* Joining again on the same context *)

\* the join under way is the second on the context and no setter was called
\* since the first returned, both were told ALLOW_OVERWRITE, the first
\* succeeded for a computer that has a name, and the caller chose no password
SecondOverwritingJoin ==
    /\ Len(previous) = 1
    /\ stage_log[1].setter_calls = previous[1].setter_calls
    /\ enroll.computer_name # NULL
    /\ previous[1].result = ADCLI_SUCCESS
    /\ ADCLI_ENROLL_ALLOW_OVERWRITE \in previous[1].flags
    /\ ADCLI_ENROLL_ALLOW_OVERWRITE \in flags
    /\ ~enroll.computer_password_explicit
    /\ ~enroll.reset_password

\* C20: running join twice back-to-back on the same context with
\* ALLOW_OVERWRITE, no explicit password and a directory that answers
\* every request, the second run succeeds like the first; it issues no
\* LDAP add and no modify of objectClass, sAMAccountName or
\* userAccountControl, sets a newly generated password (the one of the
\* first run is dropped when the second starts), and ends with a kvno
\* greater than the first run's.
C20_RejoinRotatesPasswordOnly ==
    /\ [](SecondOverwritingJoin =>
            /\ pc # "aborted"
            /\ JoinReturned => result = ADCLI_SUCCESS
            /\ \A i \in DOMAIN ldap_log :
                   ldap_log[i].stage = "account" =>
                       ldap_log[i].op \notin LdapWrites
            /\ pc \in { "discover", "prepare" } =>
                   enroll.computer_password = NULL
            /\ StageRan("password") =>
                   /\ PasswordResult = ADCLI_SUCCESS
                   /\ enroll.computer_password \in GeneratedPasswords
            /\ JoinReturned =>
                   /\ StageRan("password")
                   /\ enroll.computer_dn = previous[1].computer_dn
                   /\ enroll.kvno > previous[1].kvno)
    /\ [][(pc = "done" /\ pc' # "done"
            /\ ~enroll.computer_password_explicit) =>
              enroll'.computer_password = NULL]_vars

\* both joins returned success, the second with another generated password
\* than the first and a keytab written at the new version
C20_Witness ==
    /\ SecondOverwritingJoin
    /\ JoinSucceeded
    /\ enroll.computer_password # previous[1].computer_password
    /\ previous[1].kvno > 0
    /\ written # << >>
    /\ \A i \in DOMAIN written : written[i].vno = enroll.kvno

-----------------------------------------------------------------------------
(* Salt discovery as a function of what it is given *)

\* the candidates the realm accepts with some enctype of the list
AcceptedCandidates(enctypes, accepts) ==
    { i \in 0..2 : \E k \in DOMAIN enctypes : << i, enctypes[k] >> \in accepts }

\* the candidate that the enctype list and the realm's responses determine:
\* the first the realm accepts, -1 when it accepts none
DeterminedCandidate(enctypes, accepts) ==
    IF AcceptedCandidates(enctypes, accepts) = {} THEN -1
    ELSE CHOOSE i \in AcceptedCandidates(enctypes, accepts) :
             \A j \in AcceptedCandidates(enctypes, accepts) : i <= j

\* C21: salt discovery is deterministic: the candidate selected is
\* determined by the enctype list and the realm's accept/reject responses
\* (with the password and kvno, which the trials carry), so two runs that
\* agree on them select the same candidate, whatever the keytab, the flags
\* and the directory were.
C21_SaltDiscoveryDeterministic ==
    trials # << >> =>
        /\ \A i \in DOMAIN trials :
               /\ trials[i].realm = trials[1].realm
               /\ trials[i].kvno = enroll.kvno
               /\ trials[i].principal = enroll.keytab_principals[1]
        /\ which_salt =
               DeterminedCandidate(adcli_enroll_get_keytab_enctypes(enroll),
                                   trials[1].realm)

\* the realm accepts the second candidate with the last enctype and the
\* third with every enctype: the second was selected
C21_Witness ==
    /\ trials # << >>
    /\ JoinSucceeded
    /\ which_salt = 1
    /\ AcceptedCandidates(adcli_enroll_get_keytab_enctypes(enroll),
                          trials[1].realm) = { 1, 2 }

-----------------------------------------------------------------------------
(* Properties of the container lookup *)

\* the wellKnownObjects values that carry the prefix of the computers
\* container
WithPrefix(values) ==
    { k \in DOMAIN values : HasPrefix(values[k], WellKnownPrefix) }

\* the DN behind the prefix in the first such value
WellKnownDn(values) ==
    LET k == CHOOSE k \in WithPrefix(values) :
                 \A j \in WithPrefix(values) : k <= j
    IN  SubSeq(values[k], Len(WellKnownPrefix) + 1, Len(values[k]))

ContainerRequests == SelectSeq(ldap_log, LAMBDA r : r.stage = "container")

ContainerResult ==
    stage_log[CHOOSE i \in DOMAIN stage_log :
                  stage_log[i].stage = "container"].res

\* C22: when no container is preset, the computer container is chosen by
\* strict priority: the wellKnownObjects value of the OU with the prefix
\* B:32:AA312825768811D1ADED00C04FD8D5CD: if present; else the DN returned
\* by the (objectClass=container)(cn=Computers) search; else the OU DN.  A
\* failure of the second search is no error (the OU is used and the join
\* goes on); only a failure of the wellKnownObjects read returns DIRECTORY.
\* On success computer_dn = "CN=" + computer_name + "," + container.
C22_ContainerByPriority ==
    (StageRan("container") /\ enroll_before.computer_container = NULL) =>
        LET reqs == ContainerRequests
            first == reqs[1]
        IN  /\ Len(reqs) \in { 1, 2 }
            /\ first.filter = "(objectClass=*)"
            /\ first.dn = enroll.preferred_ou
            /\ first.ret # LDAP_SUCCESS =>
                   /\ Len(reqs) = 1
                   /\ ContainerResult = ADCLI_ERR_DIRECTORY
                   /\ JoinReturned /\ result = ADCLI_ERR_DIRECTORY
            /\ first.ret = LDAP_SUCCESS =>
                   /\ ContainerResult = ADCLI_SUCCESS
                   /\ StageRan("calc") \/ pc = "calc"
                   /\ IF WithPrefix(first.values) # {}
                      THEN /\ Len(reqs) = 1
                           /\ enroll.computer_container =
                                  WellKnownDn(first.values)
                      ELSE /\ Len(reqs) = 2
                           /\ reqs[2].filter =
                                  "(&(objectClass=container)(cn=Computers))"
                           /\ reqs[2].dn = enroll.preferred_ou
                           /\ enroll.computer_container =
                                  IF reqs[2].ret = LDAP_SUCCESS
                                     /\ reqs[2].found # NULL
                                  THEN reqs[2].found
                                  ELSE enroll.preferred_ou
            /\ (StageSucceeded("calc") /\ enroll.computer_name # NULL) =>
                   enroll.computer_dn =
                       << "C", "N", "=" >> \o enroll.computer_name
                       \o << "," >> \o enroll.computer_container

\* the OU has no well-known container and the search for CN=Computers
\* failed: the account was created directly in the OU and the join succeeded
C22_Witness ==
    /\ JoinSucceeded
    /\ Len(ContainerRequests) = 2
    /\ ContainerRequests[2].ret # LDAP_SUCCESS
    /\ enroll.computer_container = enroll.preferred_ou
    /\ enroll.computer_dn =
           << "C", "N", "=" >> \o enroll.computer_name
           \o << "," >> \o enroll.preferred_ou

-----------------------------------------------------------------------------
(* Properties of the validation of the preferred OU *)

\* the OU is the naming context, whatever the case of its letters
IsNamingContext(ou) == adcli_str_down(ou) = adcli_str_down(NamingContext)

\* the step is the call of a setter
SetterStep == setter_calls' # setter_calls

\* C23: a caller-supplied OU equal (case-insensitively) to the naming
\* context is accepted without any directory query; otherwise one
\* objectClass compare is issued and the join continues only on
\* COMPARE_TRUE, returns CONFIG on COMPARE_FALSE and DIRECTORY on any other
\* outcome.  Once an OU has been validated it is not validated again by
\* later joins until set_preferred_ou is called again, which resets the
\* validated flag.
C23_PreferredOuValidation ==
    /\ [][(pc = "ou" /\ enroll.preferred_ou # NULL) =>
            LET last == stage_log'[Len(stage_log')]
                new == SubSeq(ldap_log', Len(ldap_log) + 1, Len(ldap_log'))
            IN  /\ Len(ldap_log') >= Len(ldap_log)
                /\ last.stage = "ou"
                /\ IF enroll.preferred_ou_validated
                      \/ IsNamingContext(enroll.preferred_ou)
                   THEN /\ new = << >>
                        /\ last.res = ADCLI_SUCCESS
                        /\ pc' = "container"
                        /\ enroll'.preferred_ou_validated
                   ELSE /\ Len(new) = 1
                        /\ new[1].op = "ldap_compare"
                        /\ new[1].dn = enroll.preferred_ou
                        /\ new[1].ret = LDAP_COMPARE_TRUE =>
                               /\ last.res = ADCLI_SUCCESS
                               /\ pc' = "container"
                               /\ enroll'.preferred_ou_validated
                        /\ new[1].ret = LDAP_COMPARE_FALSE =>
                               /\ last.res = ADCLI_ERR_CONFIG
                               /\ pc' = "done"
                               /\ result' = ADCLI_ERR_CONFIG
                               /\ ~enroll'.preferred_ou_validated
                        /\ new[1].ret \notin { LDAP_COMPARE_TRUE,
                                               LDAP_COMPARE_FALSE } =>
                               /\ last.res = ADCLI_ERR_DIRECTORY
                               /\ pc' = "done"
                               /\ result' = ADCLI_ERR_DIRECTORY
                               /\ ~enroll'.preferred_ou_validated]_vars
    /\ [][(enroll.preferred_ou_validated /\ ~SetterStep) =>
              /\ enroll'.preferred_ou_validated
              /\ enroll'.preferred_ou = enroll.preferred_ou]_vars
    /\ [][(SetterStep /\ enroll'.preferred_ou # enroll.preferred_ou) =>
              ~enroll'.preferred_ou_validated]_vars

\* the second join on the context went past an OU, not the naming context,
\* that the first had validated, without a compare
C23_Witness ==
    /\ Len(previous) = 1
    /\ previous[1].result = ADCLI_SUCCESS
    /\ StageSucceeded("ou")
    /\ enroll.preferred_ou_validated
    /\ ~IsNamingContext(enroll.preferred_ou)
    /\ \A i \in DOMAIN ldap_log : ldap_log[i].op # "ldap_compare"

-----------------------------------------------------------------------------
(* The default service principals and the keytab principal list *)

\* the service principals the description gives for the service names, the
\* computer name and the host_fqdn of e: the k-th is for the service name
\* (k-1) \div per + 1, with the computer name first, the host_fqdn second
ServicePrincipalsOf(e) ==
    LET per == IF e.host_fqdn = NULL THEN 1 ELSE 2
    IN  [k \in 1..(Len(e.service_names) * per) |->
            e.service_names[(k - 1) \div per + 1] \o << "/" >>
            \o (IF (k - 1) % per = 1 THEN e.host_fqdn ELSE e.computer_name)]

\* the keytab principals the description gives for the context e
KeytabPrincipalsOf(e) ==
    << e.computer_principal >>
    \o [k \in DOMAIN e.service_principals |->
            [name |-> e.service_principals[k], realm |-> DomainRealm]]

ExampleHostFqdn == << "h", "o", "s", "t", "0", "1", ".", "c", "o", "r", "p", ".", "e", "x", "a", "m", "p", "l", "e", ".", "c", "o", "m" >>

ExampleServicePrincipals ==
    << << "H", "O", "S", "T", "/", "H", "O", "S", "T", "0", "1" >>,
       << "H", "O", "S", "T", "/", "h", "o", "s", "t", "0", "1", ".", "c", "o", "r", "p", ".", "e", "x", "a", "m", "p", "l", "e", ".", "c", "o", "m" >>,
       << "R", "e", "s", "t", "r", "i", "c", "t", "e", "d", "K", "r", "b", "H", "o", "s", "t", "/", "H", "O", "S", "T", "0", "1" >>,
       << "R", "e", "s", "t", "r", "i", "c", "t", "e", "d", "K", "r", "b", "H", "o", "s", "t", "/", "h", "o", "s", "t", "0", "1", ".", "c", "o", "r", "p", ".", "e", "x", "a", "m", "p", "l", "e", ".", "c", "o", "m" >> >>

\* a direct call of adcli_enroll_prepare on the context e, outside a join
Prepared(e) ==
    adcli_enroll_prepare(e, {}, UB_PRINTS_NULL, << "p", "w" >>, TRUE, TRUE)

\* C24: when service principals are not explicitly set, prepare produces,
\* for each service name in order, "svc/<computer_name>" followed by
\* "svc/<host_fqdn>" (the latter only if host_fqdn is present); the keytab
\* principal list is the computer principal first, followed by one
\* principal per service principal in the same order, each with the
\* connection's realm.  With the default service names and host_fqdn
\* "host01.corp.example.com" this yields HOST/HOST01,
\* HOST/host01.corp.example.com, RestrictedKrbHost/HOST01 and
\* RestrictedKrbHost/host01.corp.example.com.
C24_DefaultServicePrincipals ==
    /\ (PrepareSucceeded /\ enroll.computer_name # NULL) =>
           /\ ~enroll.service_principals_explicit =>
                  enroll.service_principals = ServicePrincipalsOf(enroll)
           /\ enroll.keytab_principals = KeytabPrincipalsOf(enroll)
    /\ LET r == Prepared(adcli_enroll_set_host_fqdn(adcli_enroll_new,
                                                    ExampleHostFqdn))
       IN  /\ r.res = ADCLI_SUCCESS
           /\ r.enroll.service_principals = ExampleServicePrincipals

\* a prepare that succeeded with default service principals and no host_fqdn
C24_Witness ==
    /\ PrepareSucceeded
    /\ ~enroll.service_principals_explicit
    /\ enroll.computer_name # NULL
    /\ enroll.host_fqdn = NULL
    /\ Len(enroll.service_principals) = Len(enroll.service_names)
    /\ Len(enroll.keytab_principals) = Len(enroll.service_principals) + 1

-----------------------------------------------------------------------------
(* The password filter *)

InPasswordRange(c) == c >= 32 /\ c <= 122

\* C26: the password filter applied to a buffer of raw bytes keeps exactly
\* the bytes whose value is in [32,122], in their original order, compacted
\* at the front of the buffer, and returns their count; e.g. the input
\* 0x1F, 'A', 0x7F, 'B' yields 'A', 'B' and the count 2.
C26_FilterKeepsRange ==
    /\ gen_octets # << >> =>
           LET keep == SelectSeq(gen_octets, InPasswordRange)
               start == gen_at - gen_kept
           IN  /\ gen_kept = Len(keep)
               /\ SubSeq(gen_password, start + 1, start + gen_kept) = keep
    /\ LET f == filter_password_chars(<< 31, 65, 127, 66 >>, 4)
       IN  /\ f.ret = 2
           /\ SubSeq(f.password, 1, 2) = << 65, 66 >>

\* the filter was handed four octets and dropped the first and the third
C26_Witness ==
    /\ Len(gen_octets) = 4
    /\ gen_kept = 2
    /\ ~InPasswordRange(gen_octets[1])
    /\ InPasswordRange(gen_octets[2])
    /\ ~InPasswordRange(gen_octets[3])
    /\ InPasswordRange(gen_octets[4])
    /\ gen_octets[2] # gen_octets[4]

-----------------------------------------------------------------------------
(* The characters of the computer password *)

\* every character of the string s has a code in [32,122]
CharactersInRange(s) == \A i \in DOMAIN s : InPasswordRange(Ascii(s[i]))

\* C25: every computer password used by the engine consists only of
\* characters in [32,122] (a generated password has exactly the requested
\* length, however many raw octets were rejected): the password the
\* password stage of a join sets on the account has no character outside
\* that range.
C25_PasswordCharactersInRange ==
    (StageRan("password") /\ enroll.computer_password # NULL) =>
        CharactersInRange(enroll.computer_password)

\* generate_host_password returned: the password has the length asked for
\* and every octet of it is in [32,122]
GeneratedAsRequested ==
    pc = "generated" =>
        /\ Len(enroll.computer_password) = gen_length
        /\ CharactersInRange(enroll.computer_password)

-----------------------------------------------------------------------------
(* Releases of the password buffer *)

\* C27: every release of the computer password buffer by the context (on
\* teardown, when the password is replaced or reset by a setter, and when a
\* generated password is discarded at the start of a join) zeroes the
\* buffer before freeing it.
C27_PasswordZeroedOnRelease ==
    \A i \in DOMAIN released : released[i].zeroed

-----------------------------------------------------------------------------
(* The reference count of the context *)

\* C28: for any sequence of new/ref/unref calls on a context, the context
\* is torn down exactly once, at the unref that brings its reference count
\* to zero, and never earlier; the context takes exactly one reference on
\* the connection at creation and releases exactly one at teardown, and
\* never closes the connection itself.
C28_TornDownOnceAtLastUnref ==
    /\ [](/\ refs >= 0
          /\ teardowns = (IF refs = 0 THEN 1 ELSE 0)
          /\ conn_log = (IF refs = 0
                         THEN << "adcli_conn_ref", "adcli_conn_unref" >>
                         ELSE << "adcli_conn_ref" >>))
    /\ [][teardowns' # teardowns =>
              /\ teardowns' = teardowns + 1
              /\ refs = 1
              /\ refs' = 0]_vars
    /\ [][refs = 0 => refs' = 0]_vars

\* the context was torn down, after a password was set on it
C28_Witness ==
    /\ refs = 0
    /\ teardowns = 1
    /\ pc = "freed"
    /\ setter_calls > 0
    /\ released # << >>

-----------------------------------------------------------------------------
(* Derived values on a re-run *)

\* the computer name that derives from the host_fqdn f: its first label in
\* upper case
NameDerivedFrom(f) == adcli_str_up(SubSeq(f, 1, strchr(f, ".") - 1))

\* C29: on a re-run, derived values are recomputed from the current inputs
\* while explicit values are preserved: if computer_name was never set by
\* the caller and a first prepare/join derived it from host_fqdn F1, then
\* after set_host_fqdn(F2) the next join derives computer_name (and
\* sam_name, computer_dn, default SPNs) from F2.  In every state after a
\* successful prepare of a context whose computer name the caller never
\* set, and before any later setter call, the computer name is the one
\* that derives from the host_fqdn the context has, and the SAM name, the
\* DN and the first default service principal are made of it.
C29_DerivedValuesRecomputed ==
    (/\ PrepareSucceeded
     /\ stage_log[1].setter_calls = setter_calls
     /\ ~enroll.computer_name_explicit
     /\ enroll.host_fqdn # NULL
     /\ ~NoInteriorDot(enroll.host_fqdn)) =>
        LET name == NameDerivedFrom(enroll.host_fqdn)
        IN  /\ enroll.computer_name = name
            /\ enroll.computer_sam = name \o << "$" >>
            /\ ~enroll.service_principals_explicit =>
                   enroll.service_principals[1]
                       = enroll.service_names[1] \o << "/" >> \o name
            /\ (enroll.computer_dn # NULL
                /\ enroll.computer_container # NULL) =>
                   enroll.computer_dn
                       = << "C", "N", "=" >> \o name \o << "," >>
                         \o enroll.computer_container

-----------------------------------------------------------------------------
(* The keytab when the join fails *)

\* C30: if join returns a non-success result, the keytab holds exactly the
\* entries it held before the join (the operation is transactional with
\* respect to the keytab): in particular a failed salt discovery or a
\* failed entry write for the k-th principal leaves no stale-entry removal
\* and no new entry behind.
C30_FailedJoinLeavesKeytab ==
    (JoinReturned /\ result # ADCLI_SUCCESS) => keytab_file = kt_before

-----------------------------------------------------------------------------
(* The outcomes of the attribute read-back *)

RetrieveResult ==
    stage_log[CHOOSE i \in DOMAIN stage_log : stage_log[i].stage = "retrieve"].res

\* the answer the read-back search got
RetrieveAnswer ==
    ldap_log[CHOOSE i \in DOMAIN ldap_log : ldap_log[i].stage = "retrieve"].ret

\* the value is a decimal number from its first character to its last
EntirelyDecimal(value) ==
    /\ value # NULL
    /\ value # << >>
    /\ \A i \in DOMAIN value : IsDigit(value[i])

\* the join stopped at the read-back with DIRECTORY: no attribute was
\* written, no keytab operation ran and the keytab is as it was
AbortedAtReadBack ==
    /\ RetrieveResult = ADCLI_ERR_DIRECTORY
    /\ JoinReturned
    /\ result = ADCLI_ERR_DIRECTORY
    /\ \A stage \in SoftStages \cup { "keytab" } : ~StageRan(stage)
    /\ \A i \in DOMAIN ldap_log : ldap_log[i].stage \notin SoftStages
    /\ \A i \in DOMAIN log : log[i].op \notin KeytabOps \ { "kt_open" }
    /\ written = << >>
    /\ keytab_file = kt_before

-----------------------------------------------------------------------------
(* The selection of the encryption types *)

\* the msDS-supportedEncryptionTypes value the read-back found, NULL if none
ReadBackSupportedEnctypes ==
    adcli_ldap_parse_value(enroll.computer_attributes,
                           "msDS-supportedEncryptionTypes")

ParseableEnctypes(value) ==
    value # NULL /\ adcli_krb5_parse_enctypes(value) # NoEnctypes

\* the list in effect
EffectiveEnctypes == adcli_enroll_get_keytab_enctypes(enroll)

\* the writes of msDS-supportedEncryptionTypes the join issued
EnctypesWrites ==
    { i \in DOMAIN ldap_log :
        ldap_log[i].stage = "enctypes" /\ ldap_log[i].op = "ldap_modify" }

\* the enctypes of the entries written for the principal
WrittenEnctypes(principal) ==
    { written[i].enctype :
          i \in { j \in DOMAIN written : written[j].principal = principal } }

\* C32: enctypes the caller set explicitly are never replaced by the account's
\* list; when not explicit and the account's msDS-supportedEncryptionTypes is
\* parseable the account's list becomes the effective list, otherwise the
\* built-in default ordered list is used.  The attribute is written back only
\* when the encoded effective list differs from the account's current value,
\* and the effective list is the one used for salt discovery and for the
\* keytab entries of the same join.
C32_EnctypeSelection ==
    (StageRan("enctypes") /\ stage_log[1].setter_calls = setter_calls) =>
        /\ enroll_before.keytab_enctypes_explicit =>
               /\ enroll.keytab_enctypes_explicit
               /\ enroll.keytab_enctypes = enroll_before.keytab_enctypes
               /\ EffectiveEnctypes = enroll_before.keytab_enctypes
        /\ (~enroll_before.keytab_enctypes_explicit
                /\ ParseableEnctypes(ReadBackSupportedEnctypes)) =>
               EffectiveEnctypes
                   = adcli_krb5_parse_enctypes(ReadBackSupportedEnctypes)
        /\ (~enroll_before.keytab_enctypes_explicit
                /\ ~ParseableEnctypes(ReadBackSupportedEnctypes)) =>
               EffectiveEnctypes = default_enctypes
        /\ \A i \in EnctypesWrites :
               /\ adcli_krb5_format_enctypes(EffectiveEnctypes)
                      # ReadBackSupportedEnctypes
               /\ \A k \in DOMAIN ldap_log[i].mods :
                      ldap_log[i].mods[k].vals
                          = { adcli_krb5_format_enctypes(EffectiveEnctypes) }
        /\ \A i \in DOMAIN trials :
               \E k \in DOMAIN EffectiveEnctypes :
                   trials[i].enctype = EffectiveEnctypes[k]
        /\ \A i \in DOMAIN written :
               WrittenEnctypes(written[i].principal)
                   = { EffectiveEnctypes[k] : k \in DOMAIN EffectiveEnctypes }

-----------------------------------------------------------------------------
(* The assertions of prepare *)

\* the process died in ensure_service_principals on one of the two conditions
\* it asserts before it looks at the running result
PrepareAssertionFailed ==
    /\ pc = "aborted"
    /\ Len(prepare_results) = 7
    /\ prepare_results[6] # ABORTED
    /\ prepare_results[7] = ABORTED
    /\ (enroll.service_names = NULLV \/ enroll.keytab_principals # << >>)

\* C33: no internal assertion is violated by any sequence of public calls on
\* a context; in particular prepare called twice in a row, or prepare after a
\* join, does not trip the assertion that the keytab principal list is still
\* empty.
C33_NoAssertionViolated == ~PrepareAssertionFailed

\* the assertion on the keytab principal list tripped in a second prepare
C33_SecondPrepareAsserts ==
    PrepareAssertionFailed /\ enroll.keytab_principals # << >>

-----------------------------------------------------------------------------
(* The container of the account and the preferred OU *)

\* the DN names an object directly in the container (DNs compare without
\* regard to case)
InContainer(dn, container) ==
    /\ Len(dn) > Len(container) + 1
    /\ strcasecmp_eq(SubSeq(dn, Len(dn) - Len(container), Len(dn)),
                     << "," >> \o container)

\* C34: in every join where the caller did not set computer_container, the
\* container used for computer_dn is the one located under the preferred OU
\* in effect for that join: after a join that discovered a container under
\* OU A, set_preferred_ou(B) followed by another join places the account in
\* the container located under B.
C34_ContainerUnderPreferredOu ==
    ("ou" \in world /\ StageSucceeded("calc")
         /\ stage_log[1].setter_calls = setter_calls) =>
        /\ strcasecmp_eq(enroll.computer_container,
                         ContainerUnder(enroll.preferred_ou))
        /\ InContainer(enroll.computer_dn,
                       ContainerUnder(enroll.preferred_ou))

-----------------------------------------------------------------------------
(* The password from one join to the next *)

\* the join under way has prepared its context
JoinPrepared ==
    /\ StageSucceeded("prepare")
    /\ stage_log[1].setter_calls = setter_calls

\* C35: a password the caller set explicitly is kept and used unchanged by
\* every later join; a generated or reset-derived password is discarded at
\* the start of each join and computed anew in that join's prepare; after
\* reset_computer_password the password is derived from computer_name, unless
\* the caller afterwards sets an explicit password, which then takes
\* precedence.
C35_PasswordAcrossJoins ==
    /\ (pc = "prepare" /\ ~enroll_before.computer_password_explicit) =>
           enroll.computer_password = NULL
    /\ (pc = "prepare" /\ enroll_before.computer_password_explicit) =>
           enroll.computer_password = enroll_before.computer_password
    /\ JoinPrepared =>
           /\ enroll.computer_password_explicit
                  = enroll_before.computer_password_explicit
           /\ enroll.computer_password =
                  IF enroll_before.computer_password_explicit
                  THEN enroll_before.computer_password
                  ELSE IF enroll_before.reset_password
                  THEN adcli_str_down(enroll.computer_name)
                  ELSE enroll.computer_password
           /\ (~enroll_before.computer_password_explicit
                   /\ ~enroll_before.reset_password) =>
                  enroll.computer_password \in GeneratedPasswords
           /\ \A i \in DOMAIN written :
                  written[i].key.password = enroll.computer_password

\* a second join that used the explicit password the caller set after a
\* reset
C35_Witness ==
    /\ Len(previous) = 1
    /\ previous[1].result = ADCLI_SUCCESS
    /\ JoinSucceeded
    /\ JoinPrepared
    /\ enroll_before.reset_password
    /\ enroll_before.computer_password_explicit
    /\ enroll.computer_password \in ExplicitPasswords
    /\ written # << >>

-----------------------------------------------------------------------------
(* The version number the caller sets *)

\* C36: a non-zero kvno the caller set with set_kvno before the join is kept
\* by that join and is the version of the keytab entries it writes; the
\* directory's msDS-KeyVersionNumber is adopted only when the context's kvno
\* is 0.
C36_CallerKvnoKept ==
    (StageSucceeded("retrieve") /\ stage_log[1].setter_calls = setter_calls
         /\ enroll_before.kvno # 0) =>
        /\ enroll.kvno = enroll_before.kvno
        /\ \A i \in DOMAIN written : written[i].vno = enroll_before.kvno

-----------------------------------------------------------------------------
(* The loop of generate_host_password *)

\* a step of the loop body
LoopRound == pc = "generate" /\ << gen_at, gen_octets >>' # << gen_at, gen_octets >>

\* C37: in the password generation loop the count of accepted characters
\* never decreases and never exceeds the requested length (the assertion
\* at <= length always holds), each round requests exactly the number of
\* characters still missing, and the loop ends with the count equal to the
\* length provided the random source eventually yields enough octets in
\* [32,122]; a failing random source ends generation with an error instead
\* of looping.
C37_GenerationLoop ==
    /\ [](gen_at <= gen_length /\ pc # "aborted")
    /\ [][gen_at' >= gen_at]_vars
    /\ [][LoopRound => Len(gen_octets') = gen_length - gen_at]_vars
    /\ [](pc = "generated" => gen_at = gen_length)
    /\ [](pc = "failed" =>
              result = ADCLI_ERR_UNEXPECTED /\ enroll.computer_password = NULL)
    /\ [][pc = "failed" => UNCHANGED vars]_vars
    /\ <>(pc \in { "generated", "failed" })

\* the loop under way after a round that kept some of its octets and dropped
\* others
C37_Witness ==
    /\ pc = "generate"
    /\ 0 < gen_at
    /\ gen_at < gen_length
    /\ 0 < gen_kept
    /\ gen_kept < Len(gen_octets)

-----------------------------------------------------------------------------
(* The password options of the tool *)

\* the static variable parse_option sets for a password option
ModeFlag(st, opt) ==
    CASE opt = "opt_no_password" -> st.no_password
      [] opt = "opt_prompt_password" -> st.prompt_password
      [] opt = "opt_stdin_password" -> st.stdin_password

\* the password callback a password option installs
ModeFunc(opt) ==
    CASE opt = "opt_no_password" -> "NULL"
      [] opt = "opt_prompt_password" -> "adcli_prompt_password_func"
      [] opt = "opt_stdin_password" -> "adcli_read_password_func"

\* the modes accepted so far
ModesSet(st) == { o \in PasswordOptions : ModeFlag(st, o) # 0 }

\* parse_option has just been called with a password option
PasswordOptionParsed ==
    tool'.parsed = tool.parsed + 1 /\ tool'.opt \in PasswordOptions

\* C38: in the tool option parser --no-password, --prompt-password and
\* --stdin-password are mutually exclusive over any sequence of parsed
\* options: once one mode has been accepted, either of the other two returns
\* a usage error and leaves the connection's password function unchanged,
\* while the same mode again is accepted; at most one mode flag is ever set.
C38_PasswordModesExclusive ==
    /\ [](Cardinality(ModesSet(statics)) <= 1)
    /\ [][PasswordOptionParsed =>
              IF ModesSet(statics) \subseteq { tool'.opt }
              THEN /\ tool'.ret = 0
                   /\ ModesSet(statics') = { tool'.opt }
                   /\ conn'.password_func = ModeFunc(tool'.opt)
              ELSE /\ tool'.ret # 0
                   /\ tool'.ret = EUSAGE
                   /\ statics' = statics
                   /\ conn' = conn]_vars

\* a mode was accepted, accepted once more, and then another mode was refused
C38_Witness ==
    /\ tool.parsed = 3
    /\ tool.opt = "opt_no_password"
    /\ tool.ret = EUSAGE
    /\ statics.stdin_password = 1
    /\ statics.no_password = 0
    /\ conn.password_func = "adcli_read_password_func"
    /\ conn.login_user = NULL
    /\ conn.domain_name = NULL
    /\ conn.use_ldaps = FALSE

-----------------------------------------------------------------------------
(* Member resolution of add-member and remove-member *)

\* the positions in the command's log of the calls of one function
CallsOf(call) == { k \in 1..Len(tool.log) : tool.log[k].call = call }

\* a user was looked up and has a DN
Resolved(entry) ==
    /\ entry.call = "adcli_entry_load"
    /\ entry.res = ADCLI_SUCCESS
    /\ entry.dn # NULL

\* the users the command line names
NamedMembers == SubSeq(tool.argv, 2, Len(tool.argv))

\* the lookups of the command, in their order
Lookups == SelectSeq(tool.log, LAMBDA entry : entry.call = "adcli_entry_load")

\* connecting failed, or a lookup failed or found no DN
ResolutionFailed ==
    \E k \in 1..Len(tool.log) :
        \/ tool.log[k].call = "adcli_conn_connect"
           /\ tool.log[k].res # ADCLI_SUCCESS
        \/ tool.log[k].call = "adcli_entry_load" /\ ~Resolved(tool.log[k])

\* C39: add-member and remove-member are all-or-nothing with respect to
\* member resolution: the single LDAP modify of the group is issued only
\* after the connection succeeded and every named member was resolved to a
\* DN (and carries one change per named member, with that DN), and when
\* connecting fails or a lookup fails or yields no DN the command returns a
\* non-zero status and has issued no modify.
C39_MemberAllOrNothing ==
    /\ Cardinality(CallsOf("adcli_entry_modify")) <= 1
    /\ \A k \in CallsOf("adcli_entry_modify") :
           /\ \E c \in 1..(k - 1) :
                  /\ tool.log[c].call = "adcli_conn_connect"
                  /\ tool.log[c].res = ADCLI_SUCCESS
           /\ Len(Lookups) = Len(NamedMembers)
           /\ Len(NamedMembers) >= 1
           /\ Len(tool.log[k].attrs) = Len(NamedMembers)
           /\ \A j \in 1..Len(NamedMembers) :
                  /\ Lookups[j].user = NamedMembers[j]
                  /\ Resolved(Lookups[j])
                  /\ tool.log[k].attrs[j].type = "member"
                  /\ tool.log[k].attrs[j].value = Lookups[j].dn
                  /\ tool.log[k].attrs[j].call =
                         IF tool.adding THEN "adcli_attrs_add1"
                                        ELSE "adcli_attrs_delete1"
           /\ \A j \in CallsOf("adcli_entry_load") : j < k
    /\ ResolutionFailed =>
           /\ tool.pc = "returned"
           /\ tool.status # 0
           /\ CallsOf("adcli_entry_modify") = {}

\* remove-member of two users returned after the first user was resolved
\* and the second had no DN
C39_Witness ==
    /\ tool.pc = "returned"
    /\ ~tool.adding
    /\ Len(NamedMembers) = 2
    /\ Len(Lookups) = 2
    /\ Resolved(Lookups[1])
    /\ Lookups[2].res = ADCLI_SUCCESS
    /\ Lookups[2].dn = NULL
    /\ tool.status = 5
    /\ CallsOf("adcli_entry_modify") = {}

====
